---------------------------- MODULE Spec2Model ----------------------------
(***************************************************************************)
(* The catalog resolution engine of the OCI package manager                *)
(* (src/oci/manager.go): ociManager.Catalog and processV1IndexManifests.   *)
(*                                                                         *)
(* Strings (names, versions, references) are sequences of tokens: a token  *)
(* is a run of characters that the parsers never split ("app", "v1",       *)
(* "reg1.io") or one of the separators ":", "/", "*", "[".  fmt.Sprintf    *)
(* ("%s:%s", a, b) is a \o <<":">> \o b.                                   *)
(***************************************************************************)
EXTENDS Integers, Sequences, FiniteSets, TLC

VARIABLES
    query,      \* the packmanager.Query of the call
    registries, \* manager.registries
    env,        \* what the collaborators answer: handler, credentials, remotes
    pc,         \* position of the Catalog call
    qname,      \* local qname
    qversion,   \* local qversion
    qglob,      \* qglob != nil
    ref,        \* local ref, also written by the sweep's tasks
    refErr,     \* refErr != nil
    err,        \* local err, also written by the sweep's tasks
    packs,      \* local packs: checksum -> package
    ridx,       \* position of the sweep in manager.registries
    rtasks,     \* the tasks of the sweep of registries[ridx], one per reference
    batches,    \* running processV1IndexManifests calls, by owner
    todo,       \* local indexes the scan has not visited yet
    ret,        \* returned packages (as a set: the order is unspecified)
    reterr,     \* returned error
    prev,       \* the previous call on the same manager and its outcome
    pkg,        \* the Pkg call that made the Catalog call, if one did
    ctx,        \* the caller's context: "live" or "cancelled"
    del         \* the Delete call that made the Catalog call, if one did

vars == <<query, registries, env, pc, qname, qversion, qglob, ref, refErr, err,
          packs, ridx, rtasks, batches, todo, ret, reterr, prev, pkg, ctx, del>>

-----------------------------------------------------------------------------
(* Strings *)

Colon == ":"
Slash == "/"
Star == "*"
Bracket == "["
Latest == <<"latest">>
Empty == <<>>

\* fmt.Sprintf("%s:%s", a, b)
SprintfColon(a, b) == a \o <<Colon>> \o b

Toks(s) == {s[i] : i \in 1..Len(s)}

\* strings.ContainsRune(s, '*')
HasStar(s) == Star \in Toks(s)

\* 0 when the token does not occur
LastIndexOf(s, t) ==
    LET at == {i \in 1..Len(s) : s[i] = t}
    IN  IF at = {} THEN 0 ELSE CHOOSE i \in at : \A j \in at : j <= i

FirstIndexOf(s, t) ==
    LET at == {i \in 1..Len(s) : s[i] = t}
    IN  IF at = {} THEN 0 ELSE CHOOSE i \in at : \A j \in at : i <= j

\* Tokens made of characters a repository path may hold (lower case, digits, "._-").
RepoToks == {"org", "app", "lib", "v1", "v2", "latest",
             "reg1.io", "reg2.io", "reg3.io", "reg4.io"}
\* Tokens that hold a "." : a first path component holding one is a registry.
DomainToks == {"reg1.io", "reg2.io", "reg3.io", "reg4.io"}
\* Tokens made of characters a tag may hold (also upper case).
TagToks == RepoToks \cup {"App"}

-----------------------------------------------------------------------------
(* name.ParseReference of go-containerregistry, as Catalog calls it.  The  *)
(* names of the model hold no "@", so the digest form never parses and the *)
(* result is that of name.NewTag.                                          *)

NoRef == [ok |-> FALSE, registry |-> Empty, repo |-> Empty, tag |-> Empty]

ParseReference(s, defaultRegistry) ==
    LET c == LastIndexOf(s, Colon)
        after == IF c = 0 THEN Empty ELSE SubSeq(s, c + 1, Len(s))
        split == c > 0 /\ Slash \notin Toks(after)
        base == IF split THEN SubSeq(s, 1, c - 1) ELSE s
        tag == IF split THEN after ELSE Empty
        tagOk == Toks(tag) \subseteq TagToks
        sl == FirstIndexOf(base, Slash)
        first == IF sl = 0 THEN Empty ELSE SubSeq(base, 1, sl - 1)
        isReg == sl > 0 /\ Toks(first) \cap (DomainToks \cup {Colon}) # {}
        registry == IF isReg THEN first ELSE Empty
        repo == IF isReg THEN SubSeq(base, sl + 1, Len(base)) ELSE base
        repoOk == repo # Empty /\ Toks(repo) \subseteq (RepoToks \cup {Slash})
        regOk == Toks(registry) \subseteq (RepoToks \cup {Colon})
    IN  IF tagOk /\ repoOk /\ regOk
        THEN [ok |-> TRUE,
              registry |-> IF registry = Empty THEN defaultRegistry ELSE registry,
              repo |-> repo,
              tag |-> IF tag = Empty THEN Latest ELSE tag]
        ELSE NoRef

\* ref.Context().RegistryStr()
RegistryStr(r) == r.registry

\* ref.Context().Name()
ContextName(r) ==
    IF r.registry # Empty THEN r.registry \o <<Slash>> \o r.repo ELSE r.repo

\* ref.Identifier()
Identifier(r) == r.tag

\* ref.String()
RefString(r) == SprintfColon(ContextName(r), r.tag)

-----------------------------------------------------------------------------
(* glob.Compile and Glob.Match of gobwas/glob, without separators: "*"     *)
(* stands for any run of characters, every other token for itself; an      *)
(* unclosed "[" does not compile.                                          *)

GlobCompiles(p) == Bracket \notin Toks(p)

RECURSIVE GlobMatch(_, _)
GlobMatch(p, s) ==
    IF p = Empty THEN s = Empty
    ELSE IF Head(p) = Star
         THEN \E k \in 0..Len(s) : GlobMatch(Tail(p), SubSeq(s, k + 1, Len(s)))
         ELSE s # Empty /\ Head(s) = Head(p) /\ GlobMatch(Tail(p), Tail(s))

-----------------------------------------------------------------------------
(* Descriptors, packages, checksums *)

\* map[string]pack.Package
EmptyMap == [c \in {} |-> 0]

Put(m, k, v) == [c \in DOMAIN m \cup {k} |-> IF c = k THEN v ELSE m[c]]

\* (mutant: an entry that is already in the map is kept)
MergeIntoKeepMutant(dst, src) ==
    [c \in DOMAIN dst \cup DOMAIN src |-> IF c \in DOMAIN dst THEN dst[c] ELSE src[c]]

\* for checksum, pack := range src { dst[checksum] = pack }
MergeInto(dst, src) ==
    [c \in DOMAIN dst \cup DOMAIN src |-> IF c \in DOMAIN src THEN src[c] ELSE dst[c]]

Values(m) == {m[c] : c \in DOMAIN m}

\* The package NewPackageFromOCIManifestDigest builds for a reference and a
\* manifest digest.
Package(fullref, d) == [ref |-> fullref, digest |-> d.digest]

\* PlatformChecksum(pack.String(), descriptor.Platform): the package's identity
\* string and the platform tuple.
PlatformChecksum(fullref, d) == <<fullref, d.os, d.arch, d.feats>>

\* (mutant: one requested feature that is available is enough)
FeatureFilterAnyMutant(kconfig, feats) ==
    IF Len(kconfig) > 0
    THEN IF Len(kconfig) > Len(feats)
         THEN FALSE
         ELSE \E i \in 1..Len(kconfig) : kconfig[i] \in {feats[j] : j \in 1..Len(feats)}
    ELSE TRUE

\* The feature check of a descriptor task: the pigeonhole short cut, then the
\* membership of every requested feature.
FeatureFilter(kconfig, feats) ==
    IF Len(kconfig) > 0
    THEN IF Len(kconfig) > Len(feats)
         THEN FALSE
         ELSE LET available == {feats[j] : j \in 1..Len(feats)}
              IN  \A i \in 1..Len(kconfig) : kconfig[i] \in available
    ELSE TRUE

\* (mutant: the architecture is not compared)
DescriptorPassesNoArchMutant(q, d) ==
    /\ d.compat
    /\ ~(q.platform # "" /\ q.platform # d.os)
    /\ FeatureFilter(q.kconfig, d.feats)

\* The checks of a descriptor task before it builds the package, in order.
DescriptorPasses(q, d) ==
    /\ d.compat
    /\ ~(q.platform # "" /\ q.platform # d.os)
    /\ ~(q.arch # "" /\ q.arch # d.arch)
    /\ FeatureFilter(q.kconfig, d.feats)

\* (mutant: a package whose checksum cannot be computed is inserted all the same)
DescriptorYieldsNoChecksumMutant(q, d) == DescriptorPasses(q, d) /\ d.inst

\* A descriptor task up to its insertion: TRUE when it has a package to insert,
\* that is when NewPackageFromOCIManifestDigest and PlatformChecksum both succeed.
DescriptorYields(q, d) == DescriptorPasses(q, d) /\ d.inst /\ d.sum

-----------------------------------------------------------------------------
(* processV1IndexManifests: one task per descriptor, joined by wg.Wait.    *)
(* A running call is a batch: its descriptors, the position of each task   *)
(* and its local packs map.                                                *)

MainOwner == 0

NewBatch(fullref, manifests) ==
    [fullref |-> fullref,
     manifests |-> manifests,
     st |-> [i \in 1..Len(manifests) |-> "ready"],
     packs |-> EmptyMap]

\* wg.Wait() returns
\* (mutant: the wait ends with the first descriptor task)
BatchDoneAnyMutant(b) ==
    \E i \in 1..Len(b.st) : b.st[i] \in {"skipped", "inserted"}

BatchDone(b) == \A i \in 1..Len(b.manifests) : b.st[i] \in {"skipped", "inserted"}

SetBatch(o, b) == [x \in DOMAIN batches \cup {o} |-> IF x = o THEN b ELSE batches[x]]

DropBatch(o) == [x \in DOMAIN batches \ {o} |-> batches[x]]

\* A descriptor task runs its checks and builds its package and checksum.
DescriptorMatch ==
    \E o \in DOMAIN batches :
      \E i \in 1..Len(batches[o].manifests) :
        LET b == batches[o]
            d == b.manifests[i]
        IN  /\ pc # "crashed"
            /\ b.st[i] = "ready"
            /\ batches' = SetBatch(o, [b EXCEPT !.st[i] =
                              IF DescriptorYields(query, d) THEN "insert" ELSE "skipped"])
            /\ UNCHANGED <<del, ctx, pkg, query, registries, env, pc, qname, qversion, qglob, ref,
                           refErr, err, packs, ridx, rtasks, todo, ret, reterr, prev>>

\* (mutant: the descriptor tasks insert without the lock)
BatchLockedNeverMutant(b) == FALSE

\* mu of processV1IndexManifests is held by a descriptor task of the batch
BatchLocked(b) == \E j \in 1..Len(b.manifests) : b.st[j] = "writing"

\* mu.Lock() of a descriptor task that has a package to insert
DescriptorLock ==
    \E o \in DOMAIN batches :
      \E i \in 1..Len(batches[o].manifests) :
        LET b == batches[o]
        IN  /\ pc # "crashed"
            /\ b.st[i] = "insert"
            /\ ~BatchLocked(b)
            /\ batches' = SetBatch(o, [b EXCEPT !.st[i] = "writing"])
            /\ UNCHANGED <<del, ctx, pkg, query, registries, env, pc, qname, qversion, qglob, ref,
                           refErr, err, packs, ridx, rtasks, todo, ret, reterr, prev>>

\* packs[checksum] = pack; mu.Unlock()
DescriptorInsert ==
    \E o \in DOMAIN batches :
      \E i \in 1..Len(batches[o].manifests) :
        LET b == batches[o]
            d == b.manifests[i]
        IN  /\ pc # "crashed"
            /\ b.st[i] = "writing"
            /\ batches' = SetBatch(o, [b EXCEPT
                              !.st[i] = "inserted",
                              !.packs = Put(b.packs, PlatformChecksum(b.fullref, d),
                                            Package(b.fullref, d))])
            /\ UNCHANGED <<del, ctx, pkg, query, registries, env, pc, qname, qversion, qglob, ref,
                           refErr, err, packs, ridx, rtasks, todo, ret, reterr, prev>>

-----------------------------------------------------------------------------
(* ociManager.Catalog: the steps of the calling thread *)

NoError == "nil"

\* The call returns (nil, e) or (ret, nil).
Returns(packages, e) ==
    /\ pc' = "done"
    /\ ret' = packages
    /\ reterr' = e

\* slices.Contains(query.Types(), unikraft.ComponentTypeApp), when types are given
TypesExcludeApp(q) == Len(q.types) > 0 /\ "app" \notin Toks(q.types)

\* (mutant: name and version are not compared)
VersionConflictNeverMutant(id, qv) == FALSE

\* (mutant: "latest" is excused on the version parameter, not on the name's tag)
VersionConflictOnQueryMutant(id, qv) == qv # Latest /\ qv # Empty /\ id # qv

\* The name carries a version and the version parameter is set to another one.
VersionConflict(id, qv) == id # Latest /\ qv # Empty /\ id # qv

\* (mutant: the tag of the name is never adopted)
WorkingVersionKeepMutant(id, qv) == qv

\* qversion after the adjustment for a version suffixed to the name
WorkingVersion(id, qv) == IF qv = Empty THEN id ELSE qv

\* From the construction of the query to the resolution of name and version.
CatalogBegin ==
    /\ pc = "begin"
    /\ LET r == ParseReference(query.name, Empty)
       IN  IF TypesExcludeApp(query)
           THEN /\ Returns({}, NoError)
                /\ UNCHANGED <<qname, qversion, qglob, ref, refErr>>
           ELSE IF HasStar(query.name) /\ ~GlobCompiles(query.name)
           THEN /\ Returns({}, "glob")
                /\ UNCHANGED <<qname, qversion, qglob, ref, refErr>>
           ELSE IF r.ok /\ VersionConflict(Identifier(r), query.version)
           THEN /\ Returns({}, "conflict")
                /\ qname' = ContextName(r)
                /\ ref' = r
                /\ refErr' = FALSE
                /\ qglob' = HasStar(query.name)
                /\ UNCHANGED qversion
           ELSE /\ pc' = "handle"
                /\ qglob' = HasStar(query.name)
                /\ ref' = r
                /\ refErr' = ~r.ok
                /\ qname' = IF r.ok THEN ContextName(r) ELSE query.name
                /\ qversion' = IF r.ok
                               THEN WorkingVersion(Identifier(r), query.version)
                               ELSE query.version
                /\ UNCHANGED <<ret, reterr>>
    /\ UNCHANGED <<del, ctx, pkg, query, registries, env, err, packs, ridx, rtasks, batches, todo, prev>>

\* ctx, handle, err := manager.handle(ctx)
AcquireHandle ==
    /\ pc = "handle"
    /\ IF env.handleOk
       THEN pc' = "auths" /\ UNCHANGED <<ret, reterr>>
       ELSE Returns({}, "handle")
    /\ UNCHANGED <<del, ctx, pkg, query, registries, env, qname, qversion, qglob, ref, refErr, err,
                   packs, ridx, rtasks, batches, todo, prev>>

\* auths from the query, or defaultAuths(ctx)
LoadAuths ==
    /\ pc = "auths"
    /\ IF ~query.auths /\ ~env.authsOk
       THEN Returns({}, "credentials")
       ELSE pc' = "direct" /\ UNCHANGED <<ret, reterr>>
    /\ UNCHANGED <<del, ctx, pkg, query, registries, env, qname, qversion, qglob, ref, refErr, err,
                   packs, ridx, rtasks, batches, todo, prev>>

\* remote.Index(ref, ...) followed by IndexManifest(): ok is FALSE when either fails.
NoIndex == [ok |-> FALSE, manifests |-> <<>>]

FetchIndex(r) ==
    IF RefString(r) \in DOMAIN env.remote THEN env.remote[RefString(r)] ELSE NoIndex

\* remote.Index(ref, ...) is given no context: while the remote does not
\* answer, the call does not return, whatever happens to ctx.
FetchStalls(r) == RefString(r) \in env.stalled

\* Phase A runs
DirectApplies == query.update /\ ~refErr

\* (mutant: a direct reference that cannot be fetched fails the call)
DirectFetchFatalMutant ==
    /\ pc = "direct"
    /\ ~(DirectApplies /\ FetchStalls(ref))
    /\ IF DirectApplies /\ FetchIndex(ref).ok
       THEN /\ batches' = SetBatch(MainOwner,
                                   NewBatch(RefString(ref), FetchIndex(ref).manifests))
            /\ pc' = "directWait"
            /\ UNCHANGED <<ret, reterr>>
       ELSE IF DirectApplies
       THEN Returns({}, "fetch") /\ UNCHANGED batches
       ELSE /\ pc' = "sweep"
            /\ UNCHANGED <<batches, ret, reterr>>
    /\ UNCHANGED <<del, ctx, pkg, query, registries, env, qname, qversion, qglob, ref, refErr, err,
                   packs, ridx, rtasks, todo, prev>>

\* The direct reference: fetch its index and start matching its manifests.
DirectFetch ==
    /\ pc = "direct"
    /\ ~(DirectApplies /\ FetchStalls(ref))
    /\ IF DirectApplies /\ FetchIndex(ref).ok
       THEN /\ batches' = SetBatch(MainOwner,
                                   NewBatch(RefString(ref), FetchIndex(ref).manifests))
            /\ pc' = "directWait"
       ELSE /\ pc' = "sweep"
            /\ UNCHANGED batches
    /\ UNCHANGED <<del, ctx, pkg, query, registries, env, qname, qversion, qglob, ref, refErr, err,
                   packs, ridx, rtasks, todo, ret, reterr, prev>>

\* for checksum, pack := range processV1IndexManifests(...) { packs[checksum] = pack }
DirectMerge ==
    /\ pc = "directWait"
    /\ BatchDone(batches[MainOwner])
    /\ packs' = MergeInto(packs, batches[MainOwner].packs)
    /\ batches' = DropBatch(MainOwner)
    /\ pc' = "sweep"
    /\ UNCHANGED <<del, ctx, pkg, query, registries, env, qname, qversion, qglob, ref, refErr, err,
                   ridx, rtasks, todo, ret, reterr, prev>>

-----------------------------------------------------------------------------
(* Phase B: the sweep of manager.registries *)

\* A method call on ref while it holds nil (a failed parse stored nil in it)
\* panics: the process dies.
RefIsNil == ref = NoRef

\* The registry is not the one the reference names.
DomainSkip(domain) ==
    ~refErr /\ RegistryStr(ref) # Empty /\ RegistryStr(ref) # domain

\* "Skip direct references from the remote registry"
DirectSkip(fullref) == query.update /\ ~refErr /\ RefString(ref) = fullref

\* The name filter of the sweep: TRUE when the reference is skipped.
SweepNameSkip(fullref) ==
    Len(qname) > 0 /\ fullref # SprintfColon(qname, qversion)

\* A task: its reference, its position, and how it ended ("" while it runs).
NewTasks(refs) ==
    [i \in 1..Len(refs) |-> [fullref |-> refs[i], pc |-> "start", out |-> ""]]

\* (mutant: a registry that cannot be used fails the call)
SkipRegistryAbortMutant ==
    /\ Returns({}, "registry")
    /\ UNCHANGED <<ridx, rtasks, err>>

\* continue: the registry is logged and skipped
SkipRegistry ==
    /\ ridx' = ridx + 1
    /\ UNCHANGED <<pc, rtasks, err, ret, reterr>>

\* reg.Catalog(ctx, "") is reached and the registry does not answer: the call
\* returns when ctx is cancelled, not before.
ListingStalls(domain) ==
    /\ env.regInit[domain]
    /\ refErr \/ ~RefIsNil
    /\ ~DomainSkip(domain)
    /\ domain \in env.stalled
    /\ ctx = "live"

\* One registry of the list: initialise it, check its domain, list its catalog
\* (which fails once ctx is cancelled) and start one task per reference.
SweepRegistry ==
    /\ pc = "sweep"
    /\ query.update
    /\ ridx <= Len(registries)
    /\ ~ListingStalls(registries[ridx])
    /\ LET domain == registries[ridx]
       IN  IF ~env.regInit[domain]
           THEN SkipRegistry
           ELSE IF ~refErr /\ RefIsNil
           THEN pc' = "crashed" /\ UNCHANGED <<ridx, rtasks, err, ret, reterr>>
           ELSE IF DomainSkip(domain)
           THEN SkipRegistry
           ELSE IF ctx = "cancelled" \/ ~env.catalog[domain].ok
           THEN SkipRegistry
           ELSE /\ rtasks' = NewTasks(env.catalog[domain].refs)
                /\ err' = NoError
                /\ pc' = "sweepWait"
                /\ UNCHANGED <<ridx, ret, reterr>>
    /\ UNCHANGED <<del, ctx, pkg, query, registries, env, qname, qversion, qglob, ref, refErr, packs,
                   batches, todo, prev>>

SetTaskPc(i, p) == [rtasks EXCEPT ![i].pc = p]

EndTask(i, how) == [rtasks EXCEPT ![i].pc = "done", ![i].out = how]

\* A reference task decides whether its reference is looked at.
RefFilter ==
    \E i \in 1..Len(rtasks) :
        /\ pc = "sweepWait"
        /\ rtasks[i].pc = "start"
        /\ IF query.update /\ ~refErr /\ RefIsNil
           THEN pc' = "crashed" /\ UNCHANGED rtasks
           ELSE /\ rtasks' = IF DirectSkip(rtasks[i].fullref)
                           THEN EndTask(i, "direct")
                           ELSE IF SweepNameSkip(rtasks[i].fullref)
                           THEN EndTask(i, "name")
                           ELSE SetTaskPc(i, "parse")
                /\ UNCHANGED pc
        /\ UNCHANGED <<del, ctx, pkg, query, registries, env, qname, qversion, qglob, ref, refErr, err,
                       packs, ridx, batches, todo, ret, reterr, prev>>

\* ref, err = name.ParseReference(fullref, name.WithDefaultRegistry(domain)):
\* the store to ref
RefParse ==
    \E i \in 1..Len(rtasks) :
        /\ pc = "sweepWait"
        /\ rtasks[i].pc = "parse"
        /\ ref' = ParseReference(rtasks[i].fullref, registries[ridx])
        /\ rtasks' = SetTaskPc(i, "parseErr")
        /\ UNCHANGED <<del, ctx, pkg, query, registries, env, pc, qname, qversion, qglob, refErr, err,
                       packs, ridx, batches, todo, ret, reterr, prev>>

\* the store to err
RefParseErr ==
    \E i \in 1..Len(rtasks) :
        /\ pc = "sweepWait"
        /\ rtasks[i].pc = "parseErr"
        /\ err' = IF ParseReference(rtasks[i].fullref, registries[ridx]).ok
                  THEN NoError ELSE "parse"
        /\ rtasks' = SetTaskPc(i, "check")
        /\ UNCHANGED <<del, ctx, pkg, query, registries, env, pc, qname, qversion, qglob, ref, refErr,
                       packs, ridx, batches, todo, ret, reterr, prev>>

\* if err != nil { return }
RefCheck ==
    \E i \in 1..Len(rtasks) :
        /\ pc = "sweepWait"
        /\ rtasks[i].pc = "check"
        /\ rtasks' = IF err # NoError THEN EndTask(i, "parse") ELSE SetTaskPc(i, "fetch")
        /\ UNCHANGED <<del, ctx, pkg, query, registries, env, pc, qname, qversion, qglob, ref, refErr,
                       err, packs, ridx, batches, todo, ret, reterr, prev>>

\* remote.Index(ref, ...), IndexManifest(), and the start of the matching of
\* the manifests under the task's own fullref
RefFetch ==
    \E i \in 1..Len(rtasks) :
        /\ pc = "sweepWait"
        /\ rtasks[i].pc = "fetch"
        /\ RefIsNil \/ ~FetchStalls(ref)
        /\ IF RefIsNil
           THEN pc' = "crashed" /\ UNCHANGED <<rtasks, batches>>
           ELSE IF FetchIndex(ref).ok
           THEN /\ batches' = SetBatch(i, NewBatch(rtasks[i].fullref,
                                                   FetchIndex(ref).manifests))
                /\ rtasks' = SetTaskPc(i, "wait")
                /\ UNCHANGED pc
           ELSE /\ rtasks' = EndTask(i, "fetch")
                /\ UNCHANGED <<pc, batches>>
        /\ UNCHANGED <<del, ctx, pkg, query, registries, env, qname, qversion, qglob, ref, refErr, err,
                       packs, ridx, todo, ret, reterr, prev>>

\* mu of the registry's sweep is held by a reference task
SweepLocked == \E j \in 1..Len(rtasks) : rtasks[j].pc = "merge"

\* processV1IndexManifests has returned its map to the task; mu.Lock()
RefLock ==
    \E i \in 1..Len(rtasks) :
        /\ pc = "sweepWait"
        /\ rtasks[i].pc = "wait"
        /\ BatchDone(batches[i])
        /\ ~SweepLocked
        /\ rtasks' = SetTaskPc(i, "merge")
        /\ UNCHANGED <<del, ctx, pkg, query, registries, env, pc, qname, qversion, qglob, ref, refErr,
                       err, packs, ridx, batches, todo, ret, reterr, prev>>

\* merge the batch's packages into packs; mu.Unlock()
RefMerge ==
    \E i \in 1..Len(rtasks) :
        /\ pc = "sweepWait"
        /\ rtasks[i].pc = "merge"
        /\ packs' = MergeInto(packs, batches[i].packs)
        /\ batches' = DropBatch(i)
        /\ rtasks' = EndTask(i, "merged")
        /\ UNCHANGED <<del, ctx, pkg, query, registries, env, pc, qname, qversion, qglob, ref, refErr,
                       err, ridx, todo, ret, reterr, prev>>

\* wg.Wait() of the registry returns: on to the next registry
SweepJoin ==
    /\ pc = "sweepWait"
    /\ \A i \in 1..Len(rtasks) : rtasks[i].pc = "done"
    /\ rtasks' = <<>>
    /\ ridx' = ridx + 1
    /\ pc' = "sweep"
    /\ UNCHANGED <<del, ctx, pkg, query, registries, env, qname, qversion, qglob, ref, refErr, err,
                   packs, batches, todo, ret, reterr, prev>>

-----------------------------------------------------------------------------
(* Phase C: the local indexes *)

\* (mutant: a failed listing is logged and the packages found so far are returned)
ListIndexesLenientMutant ==
    /\ pc = "sweep"
    /\ ~(query.update /\ ridx <= Len(registries))
    /\ IF env.listOk
       THEN /\ todo' = DOMAIN env.local
            /\ pc' = "local"
            /\ UNCHANGED <<ret, reterr>>
       ELSE /\ Returns(Values(packs), NoError)
            /\ UNCHANGED todo
    /\ UNCHANGED <<del, ctx, pkg, query, registries, env, qname, qversion, qglob, ref, refErr, err,
                   packs, ridx, rtasks, batches, prev>>

\* handle.ListIndexes(ctx), once the sweep is over or was not asked for
ListIndexes ==
    /\ pc = "sweep"
    /\ ~(query.update /\ ridx <= Len(registries))
    /\ IF env.listOk
       THEN /\ todo' = DOMAIN env.local
            /\ pc' = "local"
            /\ UNCHANGED <<ret, reterr>>
       ELSE /\ Returns({}, "list")
            /\ UNCHANGED todo
    /\ UNCHANGED <<del, ctx, pkg, query, registries, env, qname, qversion, qglob, ref, refErr, err,
                   packs, ridx, rtasks, batches, prev>>

\* The name filter of the local scan: TRUE when the index is skipped.
LocalNameSkip(fullref) ==
    IF qglob /\ ~GlobMatch(qname, fullref)
    THEN TRUE
    ELSE IF ~qglob
    THEN IF Len(qversion) > 0 /\ Len(qname) > 0
         THEN fullref # SprintfColon(qname, qversion)
         ELSE Len(qname) > 0 /\ fullref # qname
    ELSE FALSE

\* One iteration of the range over the local indexes (in the map's order,
\* which is any order).
ScanIndex ==
    \E fullref \in todo :
        /\ pc = "local"
        /\ IF ~env.local[fullref].compat \/ LocalNameSkip(fullref)
           THEN /\ todo' = todo \ {fullref}
                /\ UNCHANGED <<pc, batches>>
           ELSE /\ batches' = SetBatch(MainOwner,
                                       NewBatch(fullref, env.local[fullref].manifests))
                /\ pc' = "localWait"
                /\ UNCHANGED todo
        /\ UNCHANGED <<del, ctx, pkg, query, registries, env, qname, qversion, qglob, ref, refErr, err,
                       packs, ridx, rtasks, ret, reterr, prev>>


\* for checksum, pack := range processV1IndexManifests(...) { packs[checksum] = pack }
LocalMerge ==
    /\ pc = "localWait"
    /\ BatchDone(batches[MainOwner])
    /\ packs' = MergeInto(packs, batches[MainOwner].packs)
    /\ todo' = todo \ {batches[MainOwner].fullref}
    /\ batches' = DropBatch(MainOwner)
    /\ pc' = "local"
    /\ UNCHANGED <<del, ctx, pkg, query, registries, env, qname, qversion, qglob, ref, refErr, err,
                   ridx, rtasks, ret, reterr, prev>>

\* (mutant: an empty result is reported as an error)
CatalogReturnNotFoundMutant ==
    /\ pc = "local"
    /\ todo = {}
    /\ Returns(Values(packs), IF packs = EmptyMap THEN "notfound" ELSE NoError)
    /\ UNCHANGED <<del, ctx, pkg, query, registries, env, qname, qversion, qglob, ref, refErr, err,
                   packs, ridx, rtasks, batches, todo, prev>>

\* ret is the values of packs; return ret, nil
CatalogReturn ==
    /\ pc = "local"
    /\ todo = {}
    /\ Returns(Values(packs), NoError)
    /\ UNCHANGED <<del, ctx, pkg, query, registries, env, qname, qversion, qglob, ref, refErr, err,
                   packs, ridx, rtasks, batches, todo, prev>>

-----------------------------------------------------------------------------
(* Inputs *)

MaxKConfig == 2
MaxFeats == 2
MaxManifests == 2

Features == {"f1", "f2"}

SeqsUpTo(S, n) == UNION {[1..k -> S] : k \in 0..n}

OrgApp == <<"org", Slash, "app">>
OrgLib == <<"org", Slash, "lib">>
Tagged(name, tag) == SprintfColon(name, <<tag>>)

NewQuery(name, version, platform, arch, kconfig, types, auths, update) ==
    [name |-> name, version |-> version, platform |-> platform, arch |-> arch,
     kconfig |-> kconfig, types |-> types, auths |-> auths, update |-> update]

\* A descriptor of a manifest: digest, compatibility marker, platform, whether
\* the handler can build a package from it, and whether the checksum of that
\* package and platform can be computed.
Descriptor(digest, os, arch, feats, compat, inst, sum) ==
    [digest |-> digest, os |-> os, arch |-> arch, feats |-> feats,
     compat |-> compat, inst |-> inst, sum |-> sum]

\* The descriptors of an index get their digests from the index and the position.
WithDigests(tag, shapes) ==
    [i \in 1..Len(shapes) |->
        Descriptor(<<tag, i>>, shapes[i].os, shapes[i].arch, shapes[i].feats,
                   shapes[i].compat, shapes[i].inst, shapes[i].sum)]

Shape(os, arch, feats, compat, inst) ==
    [os |-> os, arch |-> arch, feats |-> feats, compat |-> compat, inst |-> inst,
     sum |-> TRUE]

\* The same descriptor, when PlatformChecksum returns an error for it
NoChecksum(shape) == [shape EXCEPT !.sum = FALSE]

Shapes ==
    {Shape(os, arch, feats, TRUE, TRUE) :
        os \in {"linux", "xen"}, arch \in {"x86_64", "arm64"},
        feats \in {<<"f1">>, <<"f1", "f2">>}}
    \cup {Shape("linux", "x86_64", <<"f1", "f2">>, FALSE, TRUE),
          Shape("linux", "x86_64", <<"f1", "f2">>, TRUE, FALSE),
          NoChecksum(Shape("linux", "x86_64", <<"f1", "f2">>, TRUE, TRUE))}

Index(compat, manifests) == [compat |-> compat, manifests |-> manifests]

NoPrev == [called |-> FALSE]

\* Catalog was called directly, not by Pkg.
NoPkg == [pc |-> "none"]

\* Catalog was called directly, not by Delete.
NoDelete == [pc |-> "none"]

\* The locals of a Catalog call before its first statement
CallLocals ==
    /\ qname = Empty
    /\ qversion = Empty
    /\ qglob = FALSE
    /\ ref = NoRef
    /\ refErr = FALSE
    /\ err = NoError
    /\ packs = EmptyMap
    /\ ridx = 1
    /\ rtasks = <<>>
    /\ batches = EmptyMap
    /\ todo = {}
    /\ ret = {}
    /\ reterr = NoError

CallInit == pc = "begin" /\ CallLocals

\* No registry is configured and nothing fails: only the local indexes answer.
LocalEnv(local) ==
    [handleOk |-> TRUE, authsOk |-> TRUE, listOk |-> TRUE, stalled |-> {},
     regInit |-> EmptyMap, catalog |-> EmptyMap, remote |-> EmptyMap,
     local |-> local]

\* One local index of one descriptor; the feature lists vary.
FeatureInputs ==
    \E kconfig \in SeqsUpTo(Features, MaxKConfig), feats \in SeqsUpTo(Features, MaxFeats) :
        /\ query = NewQuery(OrgApp, Empty, "", "", kconfig, <<>>, TRUE, FALSE)
        /\ env = LocalEnv(Tagged(OrgApp, "latest") :>
                    Index(TRUE, WithDigests("a", <<Shape("linux", "x86_64", feats, TRUE, TRUE)>>)))

\* One local index named by the query, beside one that is not; the platform
\* filters and the descriptors vary.
ShapeInputs ==
    \E platform \in {"", "linux"}, arch \in {"", "x86_64"},
       kconfig \in {<<>>, <<"f1">>, <<"f2", "f2">>},
       shapes \in SeqsUpTo(Shapes, MaxManifests) :
        /\ query = NewQuery(OrgApp, Empty, platform, arch, kconfig, <<>>, TRUE, FALSE)
        /\ env = LocalEnv(
                    Tagged(OrgApp, "latest") :> Index(TRUE, WithDigests("a", shapes))
                    @@ Tagged(OrgLib, "latest") :>
                         Index(TRUE, WithDigests("b", <<Shape("linux", "x86_64", <<"f1", "f2">>, TRUE, TRUE)>>)))

\* The index itself lacks the marker, or the query asks for other types.
MarkerInputs ==
    \E compat \in BOOLEAN, types \in {<<>>, <<"lib">>, <<"lib", "app">>} :
        /\ query = NewQuery(OrgApp, Empty, "linux", "", <<>>, types, TRUE, FALSE)
        /\ env = LocalEnv(
                    Tagged(OrgApp, "latest") :>
                        Index(compat, WithDigests("a", <<Shape("linux", "x86_64", <<"f1">>, TRUE, TRUE)>>)))

InitLocal ==
    /\ CallInit
    /\ registries = <<>>
    /\ prev = NoPrev
    /\ pkg = NoPkg
    /\ ctx = "live"
    /\ del = NoDelete
    /\ FeatureInputs \/ ShapeInputs \/ MarkerInputs

NextLocal ==
    \/ CatalogBegin
    \/ AcquireHandle
    \/ LoadAuths
    \/ DirectFetch
    \/ ListIndexes
    \/ ScanIndex
    \/ DescriptorMatch
    \/ DescriptorLock
    \/ DescriptorInsert
    \/ LocalMerge
    \/ CatalogReturn

SpecLocal == InitLocal /\ [][NextLocal]_vars

-----------------------------------------------------------------------------
(* The descriptor matcher on local indexes (SpecLocal) *)

TargetRef == Tagged(OrgApp, "latest")

\* The descriptor tasks that have run their checks, as <<owner, position>>.
CheckedTasks ==
    {t \in UNION {{<<o, i>> : i \in 1..Len(batches[o].manifests)} : o \in DOMAIN batches} :
        batches[t[1]].st[t[2]] # "ready"}

TaskDescriptor(t) == batches[t[1]].manifests[t[2]]

TaskSkipped(t) == batches[t[1]].st[t[2]] = "skipped"

\* The checks of a descriptor other than the feature check let it through.
OtherChecksPass(q, d) ==
    /\ d.compat
    /\ q.platform = "" \/ q.platform = d.os
    /\ q.arch = "" \/ q.arch = d.arch
    /\ d.inst
    /\ d.sum

AllRequestedAvailable(q, d) == Toks(q.kconfig) \subseteq Toks(d.feats)

\* C1, as stated: a descriptor passes the feature filter if and only if every
\* requested feature is among its available features; an empty request always
\* passes; a request longer than the available list is always skipped.
C1_FeatureSubsetAsStated ==
    \A t \in CheckedTasks :
        OtherChecksPass(query, TaskDescriptor(t)) =>
            /\ ~TaskSkipped(t) <=> AllRequestedAvailable(query, TaskDescriptor(t))
            /\ query.kconfig = <<>> => ~TaskSkipped(t)
            /\ Len(query.kconfig) > Len(TaskDescriptor(t).feats) => TaskSkipped(t)

\* C1, amended: a descriptor passes the feature filter if and only if the
\* request lists no more features than the descriptor has available and every
\* requested feature is among them; an empty request always passes.
C1_FeatureSubsetLaw ==
    \A t \in CheckedTasks :
        OtherChecksPass(query, TaskDescriptor(t)) =>
            /\ ~TaskSkipped(t) <=>
                  /\ Len(query.kconfig) <= Len(TaskDescriptor(t).feats)
                  /\ AllRequestedAvailable(query, TaskDescriptor(t))
            /\ query.kconfig = <<>> => ~TaskSkipped(t)

\* A descriptor that holds every requested feature is skipped by the short cut.
C1_Witness ==
    \E t \in CheckedTasks :
        /\ OtherChecksPass(query, TaskDescriptor(t))
        /\ Len(query.kconfig) = 2
        /\ AllRequestedAvailable(query, TaskDescriptor(t))
        /\ TaskSkipped(t)


\* The descriptors of the index named by the query, and the scenario D1, D2.
TargetManifests == env.local[TargetRef].manifests

ShapeD1 == Shape("linux", "x86_64", <<"f1", "f2">>, TRUE, TRUE)
ShapeD2 == Shape("linux", "arm64", <<"f1">>, TRUE, TRUE)

IsScenarioD1D2 ==
    /\ query.platform = "linux" /\ query.arch = "x86_64" /\ query.kconfig = <<"f1">>
    /\ query.types = <<>>
    /\ env.local[TargetRef].compat
    /\ TargetManifests = WithDigests("a", <<ShapeD1, ShapeD2>>)

\* Marker, platform, architecture, and every required feature among the features.
MatchesAsStated(q, d) ==
    /\ d.compat
    /\ q.platform = "" \/ q.platform = d.os
    /\ q.arch = "" \/ q.arch = d.arch
    /\ AllRequestedAvailable(q, d)

\* The same, with the amended feature law and a package that can be built
\* and checksummed.
MatchesAndBuilds(q, d) ==
    /\ MatchesAsStated(q, d)
    /\ Len(q.kconfig) <= Len(d.feats)
    /\ d.inst
    /\ d.sum

TargetPackages(Matches(_, _)) ==
    {Package(TargetRef, TargetManifests[i]) :
        i \in {j \in 1..Len(TargetManifests) : Matches(query, TargetManifests[j])}}

TargetChecksums(Matches(_, _)) ==
    {PlatformChecksum(TargetRef, TargetManifests[i]) :
        i \in {j \in 1..Len(TargetManifests) : Matches(query, TargetManifests[j])}}

\* C2, as stated: Catalog over one compatible local index that passes the name
\* filter returns exactly the packages of the descriptors that carry the
\* marker, match platform and architecture and hold every required feature.
C2_LocalCatalogAsStated ==
    (pc = "done" /\ ~query.update /\ reterr = NoError
        /\ env.local[TargetRef].compat
        /\ (query.types = <<>> \/ "app" \in Toks(query.types))) =>
        ret = TargetPackages(MatchesAsStated)

\* C2, amended: when the call returns no error and the query's types are empty
\* or include the application type, Catalog over one compatible local index
\* that passes the name filter returns packages of the index's descriptors that
\* carry the marker, match platform and architecture, pass the feature filter
\* (C1, amended) and can be instantiated and checksummed, one for each
\* distinct checksum (reference and platform tuple) among them, and nothing
\* else; the scenario D1, D2 returns exactly the package of D1.
C2_LocalCatalogExact ==
    (pc = "done" /\ ~query.update /\ reterr = NoError
        /\ env.local[TargetRef].compat
        /\ (query.types = <<>> \/ "app" \in Toks(query.types))) =>
        /\ ret \subseteq TargetPackages(MatchesAndBuilds)
        /\ \A c \in TargetChecksums(MatchesAndBuilds) :
              \E i \in 1..Len(TargetManifests) :
                  /\ MatchesAndBuilds(query, TargetManifests[i])
                  /\ PlatformChecksum(TargetRef, TargetManifests[i]) = c
                  /\ Package(TargetRef, TargetManifests[i]) \in ret
        /\ Cardinality(ret) = Cardinality(TargetChecksums(MatchesAndBuilds))
        /\ IsScenarioD1D2 => ret = {Package(TargetRef, TargetManifests[1])}

\* The scenario D1, D2 has returned the package of D1.
C2_Witness ==
    /\ pc = "done"
    /\ IsScenarioD1D2
    /\ ret = {Package(TargetRef, TargetManifests[1])}

-----------------------------------------------------------------------------
(* Inputs with remote registries *)

MaxRegistries == 3

Reg(k) == <<<<"reg1.io">>, <<"reg2.io">>, <<"reg3.io">>, <<"reg4.io">>>>[k]

AllDomains == {Reg(k) : k \in 1..4}

OnRegistry(domain, fullref) == domain \o <<Slash>> \o fullref

LinuxX86 == Shape("linux", "x86_64", <<"f1">>, TRUE, TRUE)
LinuxArm == Shape("linux", "arm64", <<"f1">>, TRUE, TRUE)

\* An index of one descriptor
One(tag, shape) == [ok |-> TRUE, manifests |-> WithDigests(tag, <<shape>>)]

Listing(refs) == [ok |-> TRUE, refs |-> refs]
NoListing == [ok |-> FALSE, refs |-> <<>>]

\* The names and versions a caller may ask for.
Names ==
    {Empty, OrgApp, Tagged(OrgApp, "v1"), Tagged(OrgApp, "v2"), Tagged(OrgApp, "latest"),
     OnRegistry(Reg(1), OrgApp), <<"org", Slash, Star>>, <<Bracket, Star>>, <<"App">>}

Versions == {Empty, <<"v1">>, <<"v2">>, Latest}

\* One registry that lists a reference held locally, one that is not, and one
\* that does not parse; two local indexes.  The registry is up, or fails to
\* initialise, or fails to list; when it is not up, no index can be fetched.
NameInputs ==
    \E name \in Names, version \in Versions, update \in BOOLEAN,
       mode \in {"up", "noinit", "nolist"} :
        /\ query = NewQuery(name, version, "", "", <<>>, <<>>, TRUE, update)
        /\ registries = <<Reg(1)>>
        /\ env = [handleOk |-> TRUE, authsOk |-> TRUE, listOk |-> TRUE, stalled |-> {},
                  regInit |-> [d \in AllDomains |-> mode # "noinit"],
                  catalog |-> [d \in AllDomains |->
                                 IF mode = "up"
                                 THEN Listing(<<Tagged(OrgApp, "v1"), Tagged(OrgLib, "v1"),
                                                <<"App">>>>)
                                 ELSE NoListing],
                  remote |-> IF mode = "up"
                             THEN OnRegistry(Reg(1), Tagged(OrgApp, "v1")) :> One("r1", LinuxX86)
                                  @@ OnRegistry(Reg(1), Tagged(OrgLib, "v1")) :> One("r2", LinuxArm)
                                  @@ OnRegistry(Reg(1), Tagged(OrgApp, "latest")) :> One("r3", LinuxX86)
                             ELSE EmptyMap,
                  local |-> Tagged(OrgApp, "v1")
                                :> Index(TRUE, WithDigests("l1", <<LinuxX86, LinuxArm>>))
                            @@ Tagged(OrgApp, "v2") :> Index(TRUE, WithDigests("l2", <<LinuxX86>>))]

\* The handler, the credentials or the local listing fail.
FailureInputs ==
    \E update \in BOOLEAN, auths \in BOOLEAN, handleOk \in BOOLEAN,
       authsOk \in BOOLEAN, listOk \in BOOLEAN :
        /\ query = NewQuery(OrgApp, <<"v1">>, "", "", <<>>, <<>>, auths, update)
        /\ registries = <<Reg(1)>>
        /\ env = [handleOk |-> handleOk, authsOk |-> authsOk, listOk |-> listOk, stalled |-> {},
                  regInit |-> [d \in AllDomains |-> TRUE],
                  catalog |-> [d \in AllDomains |-> Listing(<<Tagged(OrgApp, "v1")>>)],
                  remote |-> OnRegistry(Reg(1), Tagged(OrgApp, "v1")) :> One("r1", LinuxX86),
                  local |-> Tagged(OrgApp, "v1") :> Index(TRUE, WithDigests("l1", <<LinuxX86>>))]

\* What each registry lists, and what it serves.
CatalogOf(k) ==
    IF k = 2 THEN <<Tagged(OrgApp, "v1"), Tagged(OrgLib, "v1")>>
    ELSE IF k = 3 THEN <<Tagged(OrgLib, "v1"), Tagged(OrgApp, "v2")>>
    ELSE <<Tagged(OrgApp, "v1")>>

AppDigest(k) == <<"app1", "app2", "app3", "app4">>[k]
LibDigest(k) == <<"lib1", "lib2", "lib3", "lib4">>[k]

RemoteOf(k) ==
    OnRegistry(Reg(k), Tagged(OrgApp, "v1")) :> One(AppDigest(k), LinuxX86)
    @@ OnRegistry(Reg(k), Tagged(OrgLib, "v1")) :> One(LibDigest(k), LinuxArm)

RECURSIVE RemoteUpTo(_)
RemoteUpTo(n) == IF n = 0 THEN EmptyMap ELSE RemoteOf(n) @@ RemoteUpTo(n - 1)

\* Up to MaxRegistries registries, of which at most one fails, to initialise
\* or to list its catalog; the query names nothing, or one reference.
RegistryInputs ==
    \E n \in 0..MaxRegistries, failing \in 0..MaxRegistries, kind \in {"init", "list"},
       name \in {Empty, OrgApp}, platform \in {"", "xen"}, haveLocal \in BOOLEAN :
        /\ failing <= n
        /\ query = NewQuery(name, <<"v1">>, platform, "", <<>>, <<>>, TRUE, TRUE)
        /\ registries = [k \in 1..n |-> Reg(k)]
        /\ env = [handleOk |-> TRUE, authsOk |-> TRUE, listOk |-> TRUE, stalled |-> {},
                  regInit |-> [d \in AllDomains |-> ~(kind = "init" /\ failing > 0 /\ d = Reg(failing))],
                  catalog |-> [d \in AllDomains |->
                                 IF kind = "list" /\ failing > 0 /\ d = Reg(failing)
                                 THEN NoListing
                                 ELSE Listing(CatalogOf(CHOOSE k \in 1..4 : Reg(k) = d))],
                  remote |-> RemoteUpTo(4),
                  local |-> IF haveLocal
                            THEN Tagged(OrgApp, "v2") :> Index(TRUE, WithDigests("l2", <<LinuxX86>>))
                            ELSE EmptyMap]

\* The query asks for component types.
TypeInputs ==
    \E version \in Versions, types \in {<<"lib">>, <<"lib", "app">>} :
        /\ query = NewQuery(Tagged(OrgApp, "v2"), version, "", "", <<>>, types, TRUE, FALSE)
        /\ registries = <<Reg(1)>>
        /\ env = [handleOk |-> TRUE, authsOk |-> TRUE, listOk |-> TRUE, stalled |-> {},
                  regInit |-> [d \in AllDomains |-> TRUE],
                  catalog |-> [d \in AllDomains |-> Listing(<<>>)],
                  remote |-> EmptyMap,
                  local |-> Tagged(OrgApp, "v2") :> Index(TRUE, WithDigests("l2", <<LinuxX86>>))]

Init ==
    /\ CallInit
    /\ prev = NoPrev
    /\ pkg = NoPkg
    /\ ctx = "live"
    /\ del = NoDelete
    /\ NameInputs \/ FailureInputs \/ RegistryInputs \/ TypeInputs

\* The caller calls Catalog again on the same manager, with the same query but
\* for the update flag, while nothing else has changed.
CatalogAgain ==
    /\ pc = "done"
    /\ ~prev.called
    /\ prev' = [called |-> TRUE, update |-> query.update, ret |-> ret, reterr |-> reterr]
    /\ \E update \in BOOLEAN : query' = [query EXCEPT !.update = update]
    /\ pc' = "begin"
    /\ qname' = Empty
    /\ qversion' = Empty
    /\ qglob' = FALSE
    /\ ref' = NoRef
    /\ refErr' = FALSE
    /\ err' = NoError
    /\ packs' = EmptyMap
    /\ ridx' = 1
    /\ rtasks' = <<>>
    /\ batches' = EmptyMap
    /\ todo' = {}
    /\ ret' = {}
    /\ reterr' = NoError
    /\ UNCHANGED <<del, ctx, pkg, registries, env>>

Next ==
    \/ CatalogBegin
    \/ AcquireHandle
    \/ LoadAuths
    \/ DirectFetch
    \/ DirectMerge
    \/ SweepRegistry
    \/ RefFilter
    \/ RefParse
    \/ RefParseErr
    \/ RefCheck
    \/ RefFetch
    \/ RefLock
    \/ RefMerge
    \/ SweepJoin
    \/ ListIndexes
    \/ ScanIndex
    \/ DescriptorMatch
    \/ DescriptorLock
    \/ DescriptorInsert
    \/ LocalMerge
    \/ CatalogReturn

Spec == Init /\ [][Next]_vars

SpecTwice == Init /\ [][Next \/ CatalogAgain]_vars

-----------------------------------------------------------------------------
(* Cancellation of the caller's context during a call *)

\* The caller cancels ctx while Catalog runs.
Cancel ==
    /\ ctx = "live"
    /\ pc \notin {"done", "crashed"}
    /\ ctx' = "cancelled"
    /\ UNCHANGED <<query, registries, env, pc, qname, qversion, qglob, ref, refErr, err,
                   packs, ridx, rtasks, batches, todo, ret, reterr, prev, pkg, del>>

\* What can stop answering: the catalog endpoint of a registry, the index of
\* a reference on it.
Stallable ==
    {Reg(1), Reg(2), OnRegistry(Reg(1), Tagged(OrgApp, "v1")),
     OnRegistry(Reg(2), Tagged(OrgLib, "v1"))}

\* Two registries; the query names nothing or a reference on the first one;
\* at most one endpoint never answers.
InitCancel ==
    /\ CallInit
    /\ prev = NoPrev
    /\ pkg = NoPkg
    /\ ctx = "live"
    /\ del = NoDelete
    /\ registries = <<Reg(1), Reg(2)>>
    /\ \E name \in {Empty, OnRegistry(Reg(1), Tagged(OrgApp, "v1"))},
          stalled \in {{}} \cup {{x} : x \in Stallable} :
          /\ query = NewQuery(name, Empty, "", "", <<>>, <<>>, TRUE, TRUE)
          /\ env = [handleOk |-> TRUE, authsOk |-> TRUE, listOk |-> TRUE,
                    stalled |-> stalled,
                    regInit |-> [d \in AllDomains |-> TRUE],
                    catalog |-> [d \in AllDomains |->
                                   Listing(CatalogOf(CHOOSE k \in 1..4 : Reg(k) = d))],
                    remote |-> RemoteUpTo(2),
                    local |-> Tagged(OrgApp, "v1")
                                  :> Index(TRUE, WithDigests("l1", <<LinuxX86>>))]

NextCancel == Next \/ Cancel

\* The tasks and the calling thread are scheduled as long as they can run.
SpecCancel == InitCancel /\ [][NextCancel]_vars /\ WF_vars(NextCancel)

-----------------------------------------------------------------------------
(* Name and version resolution (Spec) *)

\* The query name as Catalog parses it, and its identifier.
QRef == ParseReference(query.name, Empty)

TypesAdmitApp == query.types = <<>> \/ "app" \in Toks(query.types)

NameCarriesTag == QRef.ok /\ Colon \in Toks(query.name)

\* The call has resolved name and version and goes on.
Resolved == pc \notin {"begin", "done"} \/ (pc = "done" /\ reterr # "conflict")

\* C3, as stated: with a name carrying a tag T and a query version V that is
\* non-empty, not "latest" and different from T, Catalog fails with a conflict
\* error and returns no packages; with V empty it does not fail so, and T is
\* the working version of every later comparison.
C3_TagConflictAsStated ==
    (NameCarriesTag /\ TypesAdmitApp) =>
        /\ (pc = "done" /\ query.version # Empty /\ query.version # Latest
               /\ query.version # Identifier(QRef)) =>
              (reterr = "conflict" /\ ret = {})
        /\ query.version = Empty =>
              /\ reterr # "conflict"
              /\ Resolved => qversion = Identifier(QRef)

\* C3, amended: for a query whose types are empty or include the application
\* type, with a name carrying a tag T and a query version V: if T is not
\* "latest" and V is non-empty and different from T, Catalog fails with a
\* conflict error and returns no packages; if V is empty, Catalog raises no
\* conflict error, T is the working version of every later comparison, and
\* every returned package comes from the index name:T.
C3_TagConflict ==
    (QRef.ok /\ TypesAdmitApp) =>
        /\ (pc = "done" /\ Identifier(QRef) # Latest /\ query.version # Empty
               /\ query.version # Identifier(QRef)) =>
              (reterr = "conflict" /\ ret = {})
        /\ query.version = Empty =>
              /\ reterr # "conflict"
              /\ Resolved => qversion = Identifier(QRef)
              /\ pc = "done" =>
                    \A p \in ret : p.ref = SprintfColon(ContextName(QRef), Identifier(QRef))

\* org/app:v2 with no version has returned the package of the index org/app:v2.
C3_Witness ==
    /\ pc = "done"
    /\ query.name = Tagged(OrgApp, "v2")
    /\ query.version = Empty
    /\ query.update
    /\ \E p \in ret : p.ref = Tagged(OrgApp, "v2")

\* C4, as stated: the identifier I of the name becomes the working version
\* unless the query gives a version that differs from I and is not "latest";
\* only that combination is an error.
C4_IdentifierAsStated ==
    (QRef.ok /\ TypesAdmitApp) =>
        LET differs == /\ query.version # Empty
                       /\ query.version # Identifier(QRef)
                       /\ query.version # Latest
        IN  /\ (pc = "done" /\ differs) => reterr = "conflict"
            /\ ~differs =>
                  /\ reterr # "conflict"
                  /\ Resolved => qversion = Identifier(QRef)

\* C4, amended: for a query whose types are empty or include the application
\* type and whose name parses with identifier I: it is an error exactly when I
\* is not "latest" and the query gives a version that differs from I;
\* otherwise the working version is the query's version when it gives one, and
\* I when it gives none.  A query version "latest" with a name tagged v2 is an
\* error; a query version v1 with a name tagged "latest", or not tagged, is
\* not, and resolves with working version v1.
C4_Identifier ==
    (QRef.ok /\ TypesAdmitApp) =>
        LET conflict == /\ Identifier(QRef) # Latest
                        /\ query.version # Empty
                        /\ query.version # Identifier(QRef)
        IN  /\ (pc = "done" /\ conflict) => reterr = "conflict"
            /\ ~conflict =>
                  /\ reterr # "conflict"
                  /\ Resolved => qversion = IF query.version = Empty
                                             THEN Identifier(QRef)
                                             ELSE query.version

\* org/app:v2 with version "latest" has failed with the conflict error.
C4_Witness ==
    /\ pc = "done"
    /\ query.name = Tagged(OrgApp, "v2")
    /\ query.version = Latest
    /\ reterr = "conflict"

-----------------------------------------------------------------------------
(* Selection of index references by name (Spec) *)

\* The reference tasks of the current registry that have got to the name filter.
FilteredTasks ==
    {i \in 1..Len(rtasks) : rtasks[i].pc # "start" /\ rtasks[i].out # "direct"}

\* C5: when the query name contains "*", a reference is a candidate exactly
\* when the glob matches it, in the registry sweep as in the local scan:
\* a reference task stops at the name filter if and only if the glob does not
\* match its reference, and a local index is processed only if the glob
\* matches its reference.
C5_GlobExclusively ==
    (HasStar(query.name) /\ GlobCompiles(query.name)) =>
        /\ \A i \in FilteredTasks :
              rtasks[i].out = "name" <=> ~GlobMatch(query.name, rtasks[i].fullref)
        /\ pc = "localWait" => GlobMatch(query.name, batches[MainOwner].fullref)

\* The query name without its tag, as Catalog compares it.
NameOnly == IF QRef.ok THEN ContextName(QRef) ELSE query.name

\* C6: when the query name contains no "*" and a version V is given, every
\* package Catalog returns comes from the index whose reference is name:V.
C6_ExactNameVersion ==
    (pc = "done" /\ ~HasStar(query.name) /\ query.name # Empty /\ query.version # Empty) =>
        \A p \in ret : p.ref = SprintfColon(NameOnly, query.version)

-----------------------------------------------------------------------------
(* Failing registries (Spec) *)

Healthy(k) == env.regInit[registries[k]] /\ env.catalog[registries[k]].ok

ListingFails(k) == env.regInit[registries[k]] /\ ~env.catalog[registries[k]].ok

\* The index a registry serves for a reference of its catalog.
RegistryIndex(k, fullref) ==
    LET r == ParseReference(fullref, registries[k])
    IN  IF r.ok THEN FetchIndex(r) ELSE NoIndex

\* The checksums of the packages of registry k that match the query: the
\* reference passes the name filter and the descriptor passes the matcher.
RegistryMatches(k) ==
    LET refs == env.catalog[registries[k]].refs
    IN  UNION {{PlatformChecksum(refs[j], d) :
                   d \in {d \in Toks(RegistryIndex(k, refs[j]).manifests) :
                             DescriptorYields(query, d)}} :
               j \in {j \in 1..Len(refs) : ~SweepNameSkip(refs[j])}}

\* C7: with update=true and several registries of which one fails to list its
\* catalog, wherever it stands in the list, Catalog returns no error and the
\* result holds every package that matches the query in each other registry.
C7_OneRegistryFails ==
    (/\ pc = "done"
     /\ query.update
     /\ Len(registries) >= 2
     /\ \E f \in 1..Len(registries) :
           /\ ListingFails(f)
           /\ \A k \in 1..Len(registries) \ {f} : Healthy(k)) =>
        /\ reterr = NoError
        /\ \A k \in 1..Len(registries) :
              Healthy(k) => RegistryMatches(k) \subseteq DOMAIN packs

-----------------------------------------------------------------------------
(* Two calls (SpecTwice) *)

\* Every remote operation fails: no registry gets as far as a catalog and no
\* index can be fetched.
RemoteDown ==
    /\ DOMAIN env.remote = {}
    /\ \A k \in 1..Len(registries) : ~Healthy(k)

\* C8: with every remote operation failing, Catalog with update=true returns
\* the same packages and the same error as Catalog with update=false.
C8_UpdateWithRemoteDown ==
    (pc = "done" /\ prev.called /\ prev.update # query.update /\ RemoteDown) =>
        (ret = prev.ret /\ reterr = prev.reterr)

\* Both calls have returned the same, non-empty, local packages.
C8_Witness ==
    /\ pc = "done"
    /\ prev.called
    /\ prev.update
    /\ ~query.update
    /\ RemoteDown
    /\ Len(registries) > 0
    /\ ret # {}
    /\ ret = prev.ret
    /\ reterr = NoError

\* C9: two calls with the same query, registries and contents return the same
\* set of packages, however the descriptor and reference tasks interleave.
C9_SameInputsSameResult ==
    (pc = "done" /\ prev.called /\ prev.update = query.update) =>
        (ret = prev.ret /\ reterr = prev.reterr)

-----------------------------------------------------------------------------
(* Nothing matches (Spec) *)

\* Every descriptor of every index, remote or local.
AllDescriptors ==
    UNION ({Toks(env.remote[f].manifests) : f \in DOMAIN env.remote}
           \cup {Toks(env.local[f].manifests) : f \in DOMAIN env.local})

\* The call meets no error of its own: the glob compiles, name and version
\* agree, the handler, the credentials and the local listing are there.
NoCallError ==
    /\ ~(HasStar(query.name) /\ ~GlobCompiles(query.name))
    /\ ~(QRef.ok /\ Identifier(QRef) # Latest /\ query.version # Empty
           /\ query.version # Identifier(QRef))
    /\ env.handleOk
    /\ query.auths \/ env.authsOk
    /\ env.listOk

\* C10: when no descriptor of any source matches the query and the call meets
\* no error of its own, Catalog returns an empty list and no error, also when
\* remote operations failed on the way.
C10_NoMatchIsEmpty ==
    (/\ pc = "done"
     /\ NoCallError
     /\ \A d \in AllDescriptors : ~MatchesAsStated(query, d)) =>
        (ret = {} /\ reterr = NoError)

\* Nothing matched in the registries or locally, a registry could not be used,
\* another listed a reference it does not serve, and the call has returned
\* the empty list.
C10_Witness ==
    /\ pc = "done"
    /\ query.update
    /\ AllDescriptors # {}
    /\ \A d \in AllDescriptors : ~MatchesAsStated(query, d)
    /\ \E k \in 1..Len(registries) : ~Healthy(k)
    /\ \E k \in 1..Len(registries) :
          /\ Healthy(k)
          /\ \E j \in 1..Len(env.catalog[registries[k]].refs) :
                /\ ~SweepNameSkip(env.catalog[registries[k]].refs[j])
                /\ ~RegistryIndex(k, env.catalog[registries[k]].refs[j]).ok
    /\ DOMAIN env.local # {}
    /\ ret = {}
    /\ reterr = NoError

-----------------------------------------------------------------------------
(* Pkg (src/internal/cli/kraft/pkg/pkg.go): the merge strategy and the     *)
(* choice of a packager.  Pkg calls Catalog of the package manager with    *)
(* the name of the package; the Catalog call is the one modelled above.    *)

StrategyExit == "exit"
StrategyPrompt == "prompt"
StrategyMerge == "merge"

\* packmanager.MergeStrategies(): what the prompt offers
MergeStrategies == <<StrategyExit, StrategyMerge>>

\* len(packagers())
MaxPackagers == 3

\* packagers(): the candidates, in their order
Packagers == [i \in 1..MaxPackagers |-> i]

\* pkgr == nil
NoPackager == 0

\* return nil, err
PkgFails(e) == pkg' = [pkg EXCEPT !.pc = "done", !.err = e]

\* return packs, err
PkgReturns(e) == pkg' = [pkg EXCEPT !.pc = "done", !.err = e, !.ret = TRUE]

\* Pkg up to the call of opts.pm.Catalog(ctx, packmanager.WithName(opts.Name))
PkgBegin ==
    /\ pkg.pc = "begin"
    /\ IF pkg.fails = "cwd"
       THEN PkgFails("cwd") /\ UNCHANGED <<query, pc>>
       ELSE IF pkg.Name = Empty
       THEN PkgFails("name") /\ UNCHANGED <<query, pc>>
       ELSE IF pkg.fails = "flags"
       THEN PkgFails("flags") /\ UNCHANGED <<query, pc>>
       ELSE IF pkg.NoPrompt /\ pkg.Strategy = StrategyPrompt
       THEN PkgFails("noprompt") /\ UNCHANGED <<query, pc>>
       ELSE IF pkg.fails = "format"
       THEN PkgFails("format") /\ UNCHANGED <<query, pc>>
       ELSE /\ pkg' = [pkg EXCEPT !.pc = "catalog"]
            /\ query' = NewQuery(pkg.Name, Empty, "", "", <<>>, <<>>, FALSE, FALSE)
            /\ pc' = "begin"
    /\ UNCHANGED <<del, ctx, registries, env, qname, qversion, qglob, ref, refErr, err, packs,
                   ridx, rtasks, batches, todo, ret, reterr, prev>>

\* (mutant: the switch has no case for Exit)
PkgSwitchNoExitMutant(strategy) ==
    pkg' = [pkg EXCEPT !.pc = "probe", !.Strategy = strategy,
                       !.chosen = IF pkg.pc = "prompt" THEN strategy ELSE pkg.chosen,
                       !.packopts = Append(pkg.packopts, strategy)]

\* switch opts.Strategy: Exit is an error, any other strategy is appended to
\* the pack options
PkgSwitch(strategy) ==
    IF strategy = StrategyExit
    THEN pkg' = [pkg EXCEPT !.pc = "done", !.err = "exists", !.Strategy = strategy,
                            !.chosen = IF pkg.pc = "prompt" THEN strategy ELSE pkg.chosen]
    ELSE pkg' = [pkg EXCEPT !.pc = "probe", !.Strategy = strategy,
                            !.chosen = IF pkg.pc = "prompt" THEN strategy ELSE pkg.chosen,
                            !.packopts = Append(pkg.packopts, strategy)]

\* (mutant: without a collision the requested strategy is passed on)
PkgResolveRequestedMutant ==
    /\ pkg.pc = "catalog"
    /\ pc = "done"
    /\ IF reterr = NoError /\ ret # {}
       THEN IF pkg.Strategy = StrategyPrompt
            THEN pkg' = [pkg EXCEPT !.pc = "prompt", !.prompts = pkg.prompts + 1]
            ELSE PkgSwitch(pkg.Strategy)
       ELSE pkg' = [pkg EXCEPT !.pc = "probe",
                               !.packopts = Append(pkg.packopts, pkg.Strategy)]
    /\ UNCHANGED <<del, ctx, query, registries, env, pc, qname, qversion, qglob, ref, refErr, err,
                   packs, ridx, rtasks, batches, todo, ret, reterr, prev>>

\* Catalog has returned exists, err: the prompt, the switch, or the default
PkgResolve ==
    /\ pkg.pc = "catalog"
    /\ pc = "done"
    /\ IF reterr = NoError /\ ret # {}
       THEN IF pkg.Strategy = StrategyPrompt
            THEN pkg' = [pkg EXCEPT !.pc = "prompt", !.prompts = pkg.prompts + 1]
            ELSE PkgSwitch(pkg.Strategy)
       ELSE pkg' = [pkg EXCEPT !.pc = "probe",
                               !.packopts = Append(pkg.packopts, StrategyMerge)]
    /\ UNCHANGED <<del, ctx, query, registries, env, pc, qname, qversion, qglob, ref, refErr, err,
                   packs, ridx, rtasks, batches, todo, ret, reterr, prev>>

\* selection.Select answers: a strategy of the list, or an error
PkgSelect ==
    /\ pkg.pc = "prompt"
    /\ \E choice \in Toks(MergeStrategies) \cup {"error"} :
          IF choice = "error" THEN PkgFails("select") ELSE PkgSwitch(choice)
    /\ UNCHANGED <<del, ctx, query, registries, env, pc, qname, qversion, qglob, ref, refErr, err,
                   packs, ridx, rtasks, batches, todo, ret, reterr, prev>>

\* if capable && err == nil
Qualifies(capable, e) == capable /\ ~e

\* (mutant: a candidate that says it is capable is taken, error or not)
PkgProbeCapableMutant ==
    /\ pkg.pc = "probe"
    /\ IF pkg.next > Len(Packagers)
       THEN PkgFails("nopackager")
       ELSE \E capable \in BOOLEAN, e \in BOOLEAN :
               pkg' = [pkg EXCEPT !.probed = Append(pkg.probed,
                                                [id |-> Packagers[pkg.next],
                                                 capable |-> capable, err |-> e]),
                                  !.pkgr = IF capable
                                           THEN Packagers[pkg.next] ELSE NoPackager,
                                  !.next = IF capable THEN pkg.next ELSE pkg.next + 1,
                                  !.pc = IF capable THEN "rootfs" ELSE "probe"]
    /\ UNCHANGED <<del, ctx, query, registries, env, pc, qname, qversion, qglob, ref, refErr, err,
                   packs, ridx, rtasks, batches, todo, ret, reterr, prev>>

\* One turn of the loop over packagers(), or its end: candidate.Packagable
\* answers capable, err
PkgProbe ==
    /\ pkg.pc = "probe"
    /\ IF pkg.next > Len(Packagers)
       THEN PkgFails("nopackager")
       ELSE \E capable \in BOOLEAN, e \in BOOLEAN :
               pkg' = [pkg EXCEPT !.probed = Append(pkg.probed,
                                                [id |-> Packagers[pkg.next],
                                                 capable |-> capable, err |-> e]),
                                  !.pkgr = IF Qualifies(capable, e)
                                           THEN Packagers[pkg.next] ELSE NoPackager,
                                  !.next = IF Qualifies(capable, e)
                                           THEN pkg.next ELSE pkg.next + 1,
                                  !.pc = IF Qualifies(capable, e) THEN "rootfs" ELSE "probe"]
    /\ UNCHANGED <<del, ctx, query, registries, env, pc, qname, qversion, qglob, ref, refErr, err,
                   packs, ridx, rtasks, batches, todo, ret, reterr, prev>>

\* opts.buildRootfs(ctx)
PkgBuildRootfs ==
    /\ pkg.pc = "rootfs"
    /\ \E ok \in BOOLEAN :
          pkg' = [pkg EXCEPT !.rootfs = TRUE,
                             !.pc = IF ok THEN "pack" ELSE "done",
                             !.err = IF ok THEN NoError ELSE "rootfs"]
    /\ UNCHANGED <<del, ctx, query, registries, env, pc, qname, qversion, qglob, ref, refErr, err,
                   packs, ridx, rtasks, batches, todo, ret, reterr, prev>>

\* pkgr.Pack(ctx, opts, args...)
PkgPack ==
    /\ pkg.pc = "pack"
    /\ \E ok \in BOOLEAN :
          pkg' = [pkg EXCEPT !.packed = TRUE,
                             !.pc = IF ok /\ pkg.Push THEN "push" ELSE "done",
                             !.err = IF ok THEN NoError ELSE "pack",
                             !.ret = ok]
    /\ UNCHANGED <<del, ctx, query, registries, env, pc, qname, qversion, qglob, ref, refErr, err,
                   packs, ridx, rtasks, batches, todo, ret, reterr, prev>>

\* if opts.Push: push every package, return packs, err
PkgPush ==
    /\ pkg.pc = "push"
    /\ \E ok \in BOOLEAN : PkgReturns(IF ok THEN NoError ELSE "push")
    /\ UNCHANGED <<del, ctx, query, registries, env, pc, qname, qversion, qglob, ref, refErr, err,
                   packs, ridx, rtasks, batches, todo, ret, reterr, prev>>

\* The options of a Pkg call, the settings, and what is on disk.
InitPkg ==
    /\ pc = "idle"
    /\ ctx = "live"
    /\ del = NoDelete
    /\ CallLocals
    /\ prev = NoPrev
    /\ registries = <<>>
    /\ query = NewQuery(Empty, Empty, "", "", <<>>, <<>>, FALSE, FALSE)
    /\ \E name \in {Empty, OrgApp},
          strategy \in {StrategyExit, StrategyPrompt, StrategyMerge},
          noPrompt \in BOOLEAN, push \in BOOLEAN,
          fails \in {"none", "cwd", "flags", "format"},
          have \in BOOLEAN, listOk \in BOOLEAN :
          /\ pkg = [pc |-> "begin", Name |-> name, Strategy |-> strategy,
                    NoPrompt |-> noPrompt, Push |-> push, fails |-> fails,
                    asked |-> strategy, chosen |-> "",
                    packopts |-> <<>>, prompts |-> 0, probed |-> <<>>,
                    next |-> 1, pkgr |-> NoPackager,
                    rootfs |-> FALSE, packed |-> FALSE, err |-> NoError, ret |-> FALSE]
          /\ env = [LocalEnv(IF have
                             THEN Tagged(OrgApp, "latest")
                                      :> Index(TRUE, WithDigests("a", <<LinuxX86>>))
                             ELSE EmptyMap)
                       EXCEPT !.listOk = listOk]

NextPkg ==
    \/ PkgBegin
    \/ CatalogBegin
    \/ AcquireHandle
    \/ LoadAuths
    \/ DirectFetch
    \/ ListIndexes
    \/ ScanIndex
    \/ DescriptorMatch
    \/ DescriptorLock
    \/ DescriptorInsert
    \/ LocalMerge
    \/ CatalogReturn
    \/ PkgResolve
    \/ PkgSelect
    \/ PkgProbe
    \/ PkgBuildRootfs
    \/ PkgPack
    \/ PkgPush

SpecPkg == InitPkg /\ [][NextPkg]_vars

-----------------------------------------------------------------------------
(* The merge strategy (SpecPkg) *)

\* Pkg has taken the answer of Catalog and settled the strategy.
PkgSettled == pc = "done" /\ pkg.pc \notin {"catalog", "prompt"}

\* Catalog found a package of that name.
Collision == reterr = NoError /\ ret # {}

\* C11: when the catalog lookup finds no existing package, the strategy in
\* the pack options is Merge whatever strategy was requested, and no prompt
\* was shown.
C11_NoCollisionMerges ==
    (PkgSettled /\ ret = {}) =>
        (pkg.packopts = <<StrategyMerge>> /\ pkg.prompts = 0)

\* Exit was requested, nothing of that name exists, and Merge is attached.
C11_Witness ==
    /\ PkgSettled
    /\ ret = {}
    /\ reterr = NoError
    /\ pkg.asked = StrategyExit
    /\ pkg.packopts = <<StrategyMerge>>
    /\ pkg.pc = "probe"

\* The strategy that results from the request and the prompt ("" when the
\* prompt gave none).
Resulting == IF pkg.asked = StrategyPrompt THEN pkg.chosen ELSE pkg.asked

\* C12: when a package of the name exists: with Exit requested, or chosen at
\* the prompt, Pkg returns an error, has probed no packager and has not
\* packaged; otherwise the resulting strategy, requested or chosen, is the
\* one in the pack options; and the strategy in the pack options is never
\* Exit.
C12_CollisionStrategy ==
    /\ (PkgSettled /\ Collision /\ Resulting = StrategyExit) =>
          /\ pkg.pc = "done"
          /\ pkg.err = "exists"
          /\ ~pkg.ret
          /\ pkg.probed = <<>>
          /\ ~pkg.rootfs
          /\ ~pkg.packed
          /\ pkg.packopts = <<>>
    /\ (PkgSettled /\ Collision /\ Resulting \notin {StrategyExit, ""}) =>
          pkg.packopts = <<Resulting>>
    /\ StrategyExit \notin Toks(pkg.packopts)

\* The package exists, the prompt was answered Exit, and Pkg has failed.
C12_Witness ==
    /\ PkgSettled
    /\ Collision
    /\ pkg.asked = StrategyPrompt
    /\ pkg.prompts = 1
    /\ pkg.chosen = StrategyExit
    /\ pkg.err = "exists"

-----------------------------------------------------------------------------
(* The choice of a packager (SpecPkg) *)

\* The probes made so far, as positions of pkg.probed.
Probes == 1..Len(pkg.probed)

ProbeQualifies(j) == pkg.probed[j].capable /\ ~pkg.probed[j].err

\* C13: the candidates are probed in the order of the list; the first that
\* answers capable with no error is selected and none is probed after it; a
\* candidate that answers capable with an error is not selected; when none
\* qualifies Pkg fails, without building a rootfs or packaging.
C13_FirstCapableSelected ==
    /\ \A j \in Probes : pkg.probed[j].id = Packagers[j]
    /\ \A j \in Probes : ProbeQualifies(j) =>
          (j = Len(pkg.probed) /\ pkg.pkgr = pkg.probed[j].id)
    /\ pkg.pkgr # NoPackager =>
          (pkg.probed # <<>> /\ ProbeQualifies(Len(pkg.probed))
             /\ pkg.pkgr = pkg.probed[Len(pkg.probed)].id)
    /\ (pkg.rootfs \/ pkg.packed) => pkg.pkgr # NoPackager
    /\ (pkg.pc = "done" /\ Len(pkg.probed) = Len(Packagers)
           /\ \A j \in Probes : ~ProbeQualifies(j)) =>
          (pkg.err = "nopackager" /\ ~pkg.ret /\ ~pkg.rootfs /\ ~pkg.packed)

\* The first candidate answered capable with an error, the second was
\* selected, the third was not probed, and Pkg has packaged.
C13_Witness ==
    /\ Len(pkg.probed) = 2
    /\ pkg.probed[1].capable
    /\ pkg.probed[1].err
    /\ pkg.pkgr = Packagers[2]
    /\ pkg.packed
    /\ pkg.pc = "done"

-----------------------------------------------------------------------------
(* Errors before any work (Spec) *)

\* The name has a "*" and is not a glob.
BadGlob == HasStar(query.name) /\ Bracket \in Toks(query.name)

\* The name carries a version other than "latest" and the query another one.
TagConflict ==
    /\ QRef.ok
    /\ Identifier(QRef) # Latest
    /\ query.version # Empty
    /\ query.version # Identifier(QRef)

\* Nothing of the call has run but its first checks.
NothingStarted ==
    /\ packs = EmptyMap
    /\ ridx = 1
    /\ rtasks = <<>>
    /\ batches = EmptyMap
    /\ todo = {}

\* C14, as stated: with an unparseable glob as name, or a tag and a version
\* in conflict, Catalog returns the error and no packages before it acquires
\* the handler, loads credentials, contacts a registry or lists an index.
C14_EarlyErrorAsStated ==
    (pc # "begin" /\ (BadGlob \/ TagConflict)) =>
        /\ pc = "done"
        /\ reterr = IF BadGlob THEN "glob" ELSE "conflict"
        /\ ret = {}
        /\ NothingStarted

\* C14, amended: for a query whose types are empty or include the
\* application type, with an unparseable glob as name, or a tag and a
\* version in conflict, Catalog returns the error and no packages before it
\* acquires the handler, loads credentials, contacts a registry or lists an
\* index: the first step of the call is its last.
C14_EarlyError ==
    (pc # "begin" /\ TypesAdmitApp /\ (BadGlob \/ TagConflict)) =>
        /\ pc = "done"
        /\ reterr = IF BadGlob THEN "glob" ELSE "conflict"
        /\ ret = {}
        /\ NothingStarted

\* A name that is not a glob was given with update=true, and the call has
\* returned the error.
C14_Witness ==
    /\ pc = "done"
    /\ BadGlob
    /\ query.update
    /\ Len(registries) > 0
    /\ DOMAIN env.local # {}
    /\ reterr = "glob"

-----------------------------------------------------------------------------
(* What the tasks of the sweep share (Spec) *)

\* C15: while the reference tasks of a registry run, none of them writes a
\* variable that another task or the Catalog call reads: the parsed
\* reference ref and the error err of the call do not change.
C15_TasksWriteNoSharedVariable ==
    [][pc = "sweepWait" => (ref' = ref /\ err' = err)]_vars

\* C16: the domain check skips a registry only when the query name itself
\* parsed as a reference naming another, non-empty, registry domain; the
\* sweep of an earlier registry does not make it skip a later one.
C16_DomainSkipByNameOnly ==
    (/\ pc = "sweep"
     /\ query.update
     /\ ridx <= Len(registries)
     /\ env.regInit[registries[IF ridx <= Len(registries) THEN ridx ELSE 1]]
     /\ DomainSkip(registries[ridx])) =>
        (/\ QRef.ok
         /\ RegistryStr(QRef) # Empty
         /\ RegistryStr(QRef) # registries[ridx])

-----------------------------------------------------------------------------
(* The direct reference (Spec) *)

\* C17: the direct reference is fetched and processed only if update is set
\* and the name parsed, and then whenever its index can be fetched; a name
\* that does not parse is no error and stays as it is for the filters; a
\* direct reference that cannot be fetched returns nothing to the caller,
\* adds no package, and the sweep comes next; the local scan starts only
\* from the end of the sweep.
C17_DirectReference ==
    [][/\ (pc = "direct" /\ pc' = "directWait") =>
             (/\ query.update
              /\ QRef.ok
              /\ batches'[MainOwner].fullref = RefString(QRef))
       /\ (pc = "direct" /\ query.update /\ QRef.ok /\ FetchIndex(QRef).ok) =>
             pc' = "directWait"
       /\ (pc = "direct" /\ ~(query.update /\ QRef.ok /\ FetchIndex(QRef).ok)) =>
             (pc' = "sweep" /\ packs' = packs /\ ret' = ret /\ reterr' = reterr)
       /\ (pc = "begin" /\ ~QRef.ok /\ ~BadGlob /\ TypesAdmitApp) =>
             (pc' = "handle" /\ reterr' = NoError
                /\ qname' = query.name /\ qversion' = query.version)
       /\ (pc \notin {"local", "localWait"} /\ pc' = "local") =>
             (pc = "sweep" /\ (query.update => ridx > Len(registries)))
      ]_vars

\* The index of the direct reference could not be fetched; the sweep and the
\* local scan have run and the call has returned packages and no error.
C17_Witness ==
    /\ pc = "done"
    /\ query.update
    /\ QRef.ok
    /\ ~FetchIndex(QRef).ok
    /\ Len(registries) > 0
    /\ ret # {}
    /\ reterr = NoError

\* C18: a reference task is skipped as the direct reference only when its
\* reference is the direct reference and the direct fetch has resolved it.
C18_DirectSkipOnlyResolved ==
    \A i \in 1..Len(rtasks) :
        rtasks[i].out = "direct" =>
            (/\ QRef.ok
             /\ FetchIndex(QRef).ok
             /\ rtasks[i].fullref = RefString(QRef))

-----------------------------------------------------------------------------
(* The joins (Spec) *)

\* The descriptor tasks of a batch have all finished.
AllDescriptorTasksOver(b) ==
    \A j \in 1..Len(b.manifests) : b.st[j] \in {"skipped", "inserted"}

\* The reference tasks of the registry have all finished.
AllReferenceTasksOver ==
    /\ \A i \in 1..Len(rtasks) : rtasks[i].pc = "done"
    /\ DOMAIN batches \subseteq {MainOwner}

\* C19: every fan-out is joined: the map of a batch is taken only when all
\* the descriptor tasks of the batch have finished; the sweep moves to the
\* next registry, and the local scan starts, only when all the reference
\* tasks of the registry have finished; Catalog returns only when no task
\* is running.
C19_FanOutsJoined ==
    [][/\ \A o \in DOMAIN batches :
             o \notin DOMAIN batches' => AllDescriptorTasksOver(batches[o])
       /\ ridx' # ridx => AllReferenceTasksOver
       /\ (pc \notin {"local", "localWait"} /\ pc' = "local") =>
             (AllReferenceTasksOver /\ batches = EmptyMap)
       /\ pc' = "done" => (AllReferenceTasksOver /\ batches = EmptyMap)
      ]_vars

\* The sweep has gone through two registries with reference tasks and
\* batches, the local scan has run, and Catalog has returned.
C19_Witness ==
    /\ pc = "done"
    /\ query.update
    /\ ridx = 3
    /\ Len(registries) = 2
    /\ \A k \in 1..2 : Healthy(k)
    /\ DOMAIN env.local # {}
    /\ Cardinality(ret) >= 2

-----------------------------------------------------------------------------
(* The locks of the maps (Spec) *)

\* The descriptor tasks of a batch that are writing its checksum map.
BatchWriters(b) == {j \in 1..Len(b.manifests) : b.st[j] = "writing"}

\* The reference tasks that are writing the result map.
ResultWriters == {i \in 1..Len(rtasks) : rtasks[i].pc = "merge"}

\* The calling thread is at a statement that reads or writes the result map.
MainAtResultMap == pc \in {"directWait", "local", "localWait", "done"}

\* C20: at most one task writes a given result or checksum map at a time;
\* nobody reads or writes a map while a task writes it: the map of a batch is
\* taken by its caller, and the result map is touched by the calling thread,
\* only when no task is writing; and a task holds the lock for the insertion
\* only: a reference task that holds it has its index fetched and all its
\* descriptors matched, a descriptor task takes it after its checks.
C20_MapsLocked ==
    [][/\ \A o \in DOMAIN batches' : Cardinality(BatchWriters(batches'[o])) <= 1
       /\ Cardinality(ResultWriters') <= 1
       /\ \A o \in DOMAIN batches :
             o \notin DOMAIN batches' => BatchWriters(batches[o]) = {}
       /\ packs' # packs =>
             \/ ResultWriters = {} /\ \A i \in 1..Len(rtasks) : rtasks[i].pc = "done"
             \/ \E i \in ResultWriters :
                   /\ ResultWriters = {i}
                   /\ rtasks'[i].pc = "done"
                   /\ pc = "sweepWait"
       /\ MainAtResultMap' => ResultWriters' = {}
       /\ \A i \in ResultWriters' :
             /\ i \in DOMAIN batches'
             /\ AllDescriptorTasksOver(batches'[i])
       /\ \A o \in DOMAIN batches' : \A j \in BatchWriters(batches'[o]) :
             DescriptorYields(query, batches'[o].manifests[j])
      ]_vars

\* A reference task is merging into the result map while another, whose
\* batch is over, waits for the lock.
C20_Witness ==
    \E i, j \in 1..Len(rtasks) :
        /\ i # j
        /\ rtasks[i].pc = "merge"
        /\ rtasks[j].pc = "wait"
        /\ j \in DOMAIN batches
        /\ AllDescriptorTasksOver(batches[j])

-----------------------------------------------------------------------------
(* Failures inside a batch of descriptors (SpecLocal) *)

\* The descriptor passes the filters, and its package is built and checksummed.
Builds(d) == DescriptorPasses(query, d) /\ d.inst /\ d.sum

\* The descriptor passes the filters, and its package or its checksum fails.
FailsToBuild(d) == DescriptorPasses(query, d) /\ ~(d.inst /\ d.sum)

\* The batches whose wait barrier is released.
FinishedBatches ==
    {o \in DOMAIN batches :
        \A i \in 1..Len(batches[o].manifests) :
            batches[o].st[i] \in {"skipped", "inserted"}}

\* No error comes out of the descriptor tasks.
NoBatchError == pc # "crashed" /\ reterr = NoError

\* C21, as stated: a descriptor whose instantiation or checksum fails
\* contributes no entry and no error, and every other descriptor of the batch
\* that passes the filters has its package in the batch's result under its own
\* checksum.
C21_FailureIsolatedAsStated ==
    /\ NoBatchError
    /\ \A o \in FinishedBatches :
          LET b == batches[o]
          IN  \A i \in 1..Len(b.manifests) :
                /\ FailsToBuild(b.manifests[i]) =>
                      Package(b.fullref, b.manifests[i]) \notin Values(b.packs)
                /\ Builds(b.manifests[i]) =>
                      /\ PlatformChecksum(b.fullref, b.manifests[i]) \in DOMAIN b.packs
                      /\ b.packs[PlatformChecksum(b.fullref, b.manifests[i])]
                            = Package(b.fullref, b.manifests[i])

\* C21, amended: a descriptor whose instantiation or checksum fails contributes
\* no entry and no error; every other descriptor of the batch that passes the
\* filters has its checksum as a key of the batch's result, holding its
\* package or the package of another such descriptor of the batch with the
\* same checksum; and the result has no other key.
C21_FailureIsolated ==
    /\ NoBatchError
    /\ \A o \in FinishedBatches :
          LET b == batches[o]
              sum(i) == PlatformChecksum(b.fullref, b.manifests[i])
              built == {i \in 1..Len(b.manifests) : Builds(b.manifests[i])}
          IN  /\ \A i \in 1..Len(b.manifests) :
                    FailsToBuild(b.manifests[i]) =>
                        Package(b.fullref, b.manifests[i]) \notin Values(b.packs)
              /\ DOMAIN b.packs = {sum(i) : i \in built}
              /\ \A i \in built :
                    \E j \in built :
                        /\ sum(j) = sum(i)
                        /\ b.packs[sum(i)] = Package(b.fullref, b.manifests[j])

\* A batch is over in which one descriptor failed to build or to checksum and
\* its sibling has its package in the result.
C21_Witness ==
    \E o \in FinishedBatches :
        LET b == batches[o]
        IN  \E i, j \in 1..Len(b.manifests) :
              /\ FailsToBuild(b.manifests[i])
              /\ ~b.manifests[i].sum
              /\ Builds(b.manifests[j])
              /\ b.packs[PlatformChecksum(b.fullref, b.manifests[j])]
                    = Package(b.fullref, b.manifests[j])

-----------------------------------------------------------------------------
(* The errors Catalog returns (Spec) *)

\* The failure that an error of the call reports
CauseOf(e) ==
    CASE e = "glob" -> HasStar(query.name) /\ ~GlobCompiles(query.name)
      [] e = "conflict" ->
            /\ ParseReference(query.name, Empty).ok
            /\ Identifier(ParseReference(query.name, Empty)) # Latest
            /\ query.version # Empty
            /\ Identifier(ParseReference(query.name, Empty)) # query.version
      [] e = "handle" -> ~env.handleOk
      [] e = "credentials" -> ~query.auths /\ ~env.authsOk
      [] e = "list" -> ~env.listOk
      [] OTHER -> FALSE

\* C22: Catalog returns an error only for a structural failure (handler,
\* credentials when the query supplies none, local index listing) or for a
\* parse or conflict error of the query, and then returns no packages; a call
\* that returns without error met no failing handler, credentials or listing
\* (or searched nothing because of the query's types); when the local index
\* listing fails, the call returns the error and no packages even if the
\* direct reference or the sweep had found packages.
C22_OnlyStructuralErrors ==
    pc = "done" =>
        /\ reterr # NoError => (CauseOf(reterr) /\ ret = {})
        /\ reterr = NoError =>
              \/ TypesExcludeApp(query)
              \/ env.handleOk /\ (query.auths \/ env.authsOk) /\ env.listOk

\* The listing of the local indexes failed after the sweep had found a package.
C22_Witness ==
    /\ pc = "done"
    /\ reterr = "list"
    /\ ret = {}
    /\ packs # EmptyMap

-----------------------------------------------------------------------------
(* Cancellation (SpecCancel) *)

\* A remote fetch is in flight: the calling thread or a task is at a call
\* that the remote has not answered.
FetchInFlight ==
    \/ pc = "direct" /\ DirectApplies /\ FetchStalls(ref)
    \/ pc = "sweep" /\ query.update /\ ridx <= Len(registries)
          /\ ListingStalls(registries[ridx])
    \/ pc = "sweepWait"
          /\ \E i \in 1..Len(rtasks) :
                rtasks[i].pc = "fetch" /\ ~RefIsNil /\ FetchStalls(ref)

\* The call has returned and has left no task behind.
Unwound ==
    /\ pc = "done"
    /\ \A i \in 1..Len(rtasks) : rtasks[i].pc = "done"
    /\ batches = EmptyMap

\* C23: once the caller's context is cancelled during a call, every fetch in
\* flight is aborted, every started task finishes, and Catalog eventually
\* returns with no task left running.
C23_CancelUnwinds == (ctx = "cancelled") ~> (Unwound /\ ~FetchInFlight)

-----------------------------------------------------------------------------
(* The index a reference task works on (Spec) *)

\* The index of the cataloged reference of task i, parsed with the registry's
\* domain as default.
OwnIndex(i) == FetchIndex(ParseReference(rtasks[i].fullref, registries[ridx]))

\* C24: in the sweep, the packages that the task of a cataloged reference
\* inserts are derived from the index fetched for that reference, never from
\* the index of another reference, under every interleaving of the tasks.
C24_TaskUsesOwnIndex ==
    pc = "sweepWait" =>
        \A i \in 1..Len(rtasks) :
            i \in DOMAIN batches =>
                /\ OwnIndex(i).ok
                /\ batches[i].manifests = OwnIndex(i).manifests

-----------------------------------------------------------------------------
(* One package per checksum, the latest phase wins (Spec) *)

\* The map m after the entries of the map b replaced or joined its own.
Overrides(m, b, after) ==
    /\ DOMAIN after = DOMAIN m \cup DOMAIN b
    /\ \A c \in DOMAIN b : after[c] = b[c]
    /\ \A c \in DOMAIN m \ DOMAIN b : after[c] = m[c]

\* The descriptors of the local indexes that the scan turns into packages, as
\* <<reference, position>>.
LocalBuilt ==
    {t \in UNION {{<<f, i>> : i \in 1..Len(env.local[f].manifests)} : f \in DOMAIN env.local} :
        /\ env.local[t[1]].compat
        /\ ~LocalNameSkip(t[1])
        /\ Builds(env.local[t[1]].manifests[t[2]])}

LocalSum(t) == PlatformChecksum(t[1], env.local[t[1]].manifests[t[2]])

LocalPackage(t) == Package(t[1], env.local[t[1]].manifests[t[2]])

\* C25: the result holds at most one package per checksum, the values of the
\* checksum-keyed map; the entries a reference task of the sweep merges
\* replace those of the direct reference, the entries of a local index replace
\* those of the sweep and of the direct reference; no phase runs after a later
\* one; so a checksum that a local index produces is returned with the
\* package of a local index.
C25_LatestPhaseWins ==
    [][/\ \A i \in 1..Len(rtasks) :
             (rtasks[i].pc = "merge" /\ rtasks'[i].pc = "done") =>
                 Overrides(packs, batches[i].packs, packs')
       /\ (pc = "localWait" /\ pc' = "local") =>
             Overrides(packs, batches[MainOwner].packs, packs')
       /\ pc \in {"local", "localWait"} => pc' \in {"local", "localWait", "done"}
       /\ pc \in {"sweep", "sweepWait"} => pc' \notin {"direct", "directWait"}
       /\ (pc = "local" /\ pc' = "done") =>
             /\ ret' = Values(packs)
             /\ Cardinality(ret') <= Cardinality(DOMAIN packs)
             /\ \A t \in LocalBuilt :
                   /\ LocalSum(t) \in DOMAIN packs
                   /\ \E u \in LocalBuilt :
                         LocalSum(u) = LocalSum(t) /\ packs[LocalSum(t)] = LocalPackage(u)
      ]_vars

\* The sweep produced a package of org/app:v1 under the checksum that the
\* local index org/app:v1 produces too: the call has returned the local one.
C25_Witness ==
    /\ pc = "done"
    /\ reterr = NoError
    /\ query.name = OrgApp /\ query.version = <<"v1">> /\ query.update
    /\ registries = <<Reg(1)>>
    /\ env.regInit[Reg(1)] /\ env.catalog[Reg(1)].ok
    /\ OnRegistry(Reg(1), Tagged(OrgApp, "v1")) \in DOMAIN env.remote
    /\ Tagged(OrgApp, "v1") \in DOMAIN env.local
    /\ PlatformChecksum(Tagged(OrgApp, "v1"),
                        env.remote[OnRegistry(Reg(1), Tagged(OrgApp, "v1"))].manifests[1])
          = PlatformChecksum(Tagged(OrgApp, "v1"),
                             env.local[Tagged(OrgApp, "v1")].manifests[1])
    /\ Package(Tagged(OrgApp, "v1"), env.local[Tagged(OrgApp, "v1")].manifests[1]) \in ret
    /\ Package(Tagged(OrgApp, "v1"),
               env.remote[OnRegistry(Reg(1), Tagged(OrgApp, "v1"))].manifests[1]) \notin ret

-----------------------------------------------------------------------------
(* SetSources, AddSource, RemoveSource *)

MaxSources == 3

\* The sources a caller may name.
Sources == {Reg(1), Reg(2)}

\* The call that was made: its name, its argument, manager.registries before
\* it, and the error it returned.
Called(op, arg, e) ==
    [called |-> TRUE, op |-> op, arg |-> arg, before |-> registries, reterr |-> e]

\* The variables of a Catalog call, while none runs
NoCatalogCall ==
    UNCHANGED <<query, env, pc, qname, qversion, qglob, ref, refErr, err, packs, ridx,
                rtasks, batches, todo, ret, reterr, pkg, ctx, del>>

\* manager.registries = sources; return nil
SetSources ==
    \E sources \in SeqsUpTo(Sources, MaxSources) :
        /\ pc = "idle"
        /\ registries' = sources
        /\ prev' = Called("SetSources", sources, NoError)
        /\ NoCatalogCall

\* manager.registries = append(manager.registries, source); return nil
AddSource ==
    \E source \in Sources :
        /\ pc = "idle"
        /\ Len(registries) < MaxSources
        /\ registries' = Append(registries, source)
        /\ prev' = Called("AddSource", source, NoError)
        /\ NoCatalogCall

\* (mutant: every entry equal to the source is removed)
RemoveFromAllMutant(list, source) ==
    SelectSeq(list, LAMBDA needle : needle # source)

\* The loop of RemoveSource: the list without the first needle equal to
\* source (break), the list itself when there is none.
RemoveFrom(list, source) ==
    LET i == FirstIndexOf(list, source)
    IN  IF i = 0
        THEN list
        ELSE SubSeq(list, 1, i - 1) \o SubSeq(list, i + 1, Len(list))

\* RemoveSource; return nil
RemoveSource ==
    \E source \in Sources :
        /\ pc = "idle"
        /\ registries' = RemoveFrom(registries, source)
        /\ prev' = Called("RemoveSource", source, NoError)
        /\ NoCatalogCall

\* A manager without sources, on which no Catalog call runs.
InitSources ==
    /\ pc = "idle"
    /\ CallLocals
    /\ registries = <<>>
    /\ prev = NoPrev
    /\ pkg = NoPkg
    /\ ctx = "live"
    /\ del = NoDelete
    /\ query = NewQuery(Empty, Empty, "", "", <<>>, <<>>, FALSE, FALSE)
    /\ env = LocalEnv(EmptyMap)

NextSources == SetSources \/ AddSource \/ RemoveSource

SpecSources == InitSources /\ [][NextSources]_vars

-----------------------------------------------------------------------------
(* The list of sources (SpecSources) *)

\* The positions of a list that hold the source.
Occurrences(list, source) == {i \in 1..Len(list) : list[i] = source}

\* The list without its position i.
Without(list, i) ==
    [j \in 1..(Len(list) - 1) |-> IF j < i THEN list[j] ELSE list[j + 1]]

\* C26: after SetSources the list is the argument; after AddSource it is the
\* former list with the source appended, duplicate or not; after RemoveSource
\* it is the former list without the first entry equal to the source, the
\* other entries in their order, or the former list when the source is absent;
\* no call returns an error; a source that was there twice is still there
\* after it is removed once.
C26_SourceList ==
    prev.called =>
        /\ prev.reterr = NoError
        /\ prev.op = "SetSources" => registries = prev.arg
        /\ prev.op = "AddSource" =>
              /\ Len(registries) = Len(prev.before) + 1
              /\ registries[Len(registries)] = prev.arg
              /\ \A j \in 1..Len(prev.before) : registries[j] = prev.before[j]
        /\ prev.op = "RemoveSource" =>
              LET at == Occurrences(prev.before, prev.arg)
              IN  /\ at = {} => registries = prev.before
                  /\ at # {} =>
                        \E i \in at :
                            /\ \A j \in at : i <= j
                            /\ registries = Without(prev.before, i)
                  /\ Cardinality(at) >= 2 => Occurrences(registries, prev.arg) # {}

\* A source that was configured twice has been removed once and is still
\* configured.
C26_Witness ==
    /\ prev.called
    /\ prev.op = "RemoveSource"
    /\ Cardinality(Occurrences(prev.before, prev.arg)) = 2
    /\ Occurrences(registries, prev.arg) # {}
    /\ Len(registries) = Len(prev.before) - 1

-----------------------------------------------------------------------------
(* ociManager.Delete *)

\* The error Delete returns: nil, the error of Catalog, or the join of the
\* errors of the packages.  errors.Join of no error is nil.
NilError == [kind |-> "nil"]

CatalogError(e) == [kind |-> "catalog", e |-> e]

Join(errs) == IF errs = <<>> THEN NilError ELSE [kind |-> "join", errs |-> errs]

\* packs, err := manager.Catalog(ctx, qopts...): the call
DeleteBegin ==
    /\ del.pc = "begin"
    /\ pc = "idle"
    /\ pc' = "begin"
    /\ del' = [del EXCEPT !.pc = "catalog"]
    /\ UNCHANGED <<query, registries, env, qname, qversion, qglob, ref, refErr, err, packs,
                   ridx, rtasks, batches, todo, ret, reterr, prev, pkg, ctx>>

\* if err != nil { return err }; otherwise the range over packs begins
DeleteCatalogDone ==
    /\ del.pc = "catalog"
    /\ pc = "done"
    /\ del' = IF reterr # NoError
              THEN [del EXCEPT !.pc = "done", !.err = CatalogError(reterr)]
              ELSE [del EXCEPT !.pc = "loop", !.packs = ret]
    /\ UNCHANGED <<query, registries, env, pc, qname, qversion, qglob, ref, refErr, err,
                   packs, ridx, rtasks, batches, todo, ret, reterr, prev, pkg, ctx>>

\* (mutant: the first package that fails to delete ends the loop)
DeletePackFailFastMutant ==
    \E p \in del.packs, ok \in BOOLEAN :
        /\ del.pc = "loop"
        /\ del' = IF ok
                  THEN [del EXCEPT !.packs = @ \ {p},
                                   !.tried = Append(@, p)]
                  ELSE [del EXCEPT !.packs = {},
                                   !.tried = Append(@, p),
                                   !.failed = @ \cup {p},
                                   !.errs = Append(@, p)]
        /\ UNCHANGED <<query, registries, env, pc, qname, qversion, qglob, ref, refErr, err,
                       packs, ridx, rtasks, batches, todo, ret, reterr, prev, pkg, ctx>>

\* One iteration of the range over packs (a slice filled from a map, in any
\* order): pack.Delete(ctx), whose error is appended to errs.
DeletePack ==
    \E p \in del.packs, ok \in BOOLEAN :
        /\ del.pc = "loop"
        /\ del' = IF ok
                  THEN [del EXCEPT !.packs = @ \ {p},
                                   !.tried = Append(@, p)]
                  ELSE [del EXCEPT !.packs = @ \ {p},
                                   !.tried = Append(@, p),
                                   !.failed = @ \cup {p},
                                   !.errs = Append(@, p)]
        /\ UNCHANGED <<query, registries, env, pc, qname, qversion, qglob, ref, refErr, err,
                       packs, ridx, rtasks, batches, todo, ret, reterr, prev, pkg, ctx>>

\* return errors.Join(errs...)
DeleteReturn ==
    /\ del.pc = "loop"
    /\ del.packs = {}
    /\ del' = [del EXCEPT !.pc = "done", !.err = Join(del.errs)]
    /\ UNCHANGED <<query, registries, env, pc, qname, qversion, qglob, ref, refErr, err,
                   packs, ridx, rtasks, batches, todo, ret, reterr, prev, pkg, ctx>>

\* Delete on a manager with two local indexes and no update: the query names
\* nothing, one of the indexes, or a glob that does not compile; the listing
\* of the local indexes works or fails.
InitDelete ==
    /\ pc = "idle"
    /\ CallLocals
    /\ registries = <<>>
    /\ prev = NoPrev
    /\ pkg = NoPkg
    /\ ctx = "live"
    /\ del = [pc |-> "begin", packs |-> {}, tried |-> <<>>, failed |-> {},
              errs |-> <<>>, err |-> NilError]
    /\ \E name \in {Empty, Tagged(OrgApp, "v1"), Tagged(OrgLib, "v1"), <<Bracket, Star>>},
          listOk \in BOOLEAN :
          /\ query = NewQuery(name, Empty, "", "", <<>>, <<>>, TRUE, FALSE)
          /\ env = [LocalEnv(Tagged(OrgApp, "v1")
                                 :> Index(TRUE, WithDigests("l1", <<LinuxX86, LinuxArm>>))
                             @@ Tagged(OrgApp, "v2")
                                 :> Index(TRUE, WithDigests("l2", <<LinuxX86>>)))
                       EXCEPT !.listOk = listOk]

NextDelete ==
    \/ DeleteBegin
    \/ CatalogBegin
    \/ AcquireHandle
    \/ LoadAuths
    \/ DirectFetch
    \/ ListIndexes
    \/ ScanIndex
    \/ DescriptorMatch
    \/ DescriptorLock
    \/ DescriptorInsert
    \/ LocalMerge
    \/ CatalogReturn
    \/ DeleteCatalogDone
    \/ DeletePack
    \/ DeleteReturn

SpecDelete == InitDelete /\ [][NextDelete]_vars

-----------------------------------------------------------------------------
(* Delete (SpecDelete) *)

\* The packages on which Delete was called.
Tried == {del.tried[i] : i \in 1..Len(del.tried)}

\* C27: Delete calls Delete on every package that Catalog returns, once each,
\* also after a package failed to delete, and returns the join of the
\* deletion errors, one per package that failed, and no error when all
\* succeed; when Catalog fails, Delete returns that error and deletes nothing.
C27_DeleteAll ==
    /\ del.pc = "done" =>
          IF reterr # NoError
          THEN del.err = CatalogError(reterr) /\ del.tried = <<>>
          ELSE /\ Tried = ret
               /\ Len(del.tried) = Cardinality(ret)
               /\ del.failed = {} => del.err = NilError
               /\ del.failed # {} =>
                     /\ del.err.kind = "join"
                     /\ {del.err.errs[i] : i \in 1..Len(del.err.errs)} = del.failed
                     /\ Len(del.err.errs) = Cardinality(del.failed)
    /\ del.pc \in {"begin", "catalog"} => del.tried = <<>>

\* Delete has returned the join of an error after it deleted another package
\* once the first one had failed.
C27_Witness ==
    /\ del.pc = "done"
    /\ del.err.kind = "join"
    /\ \E i, j \in 1..Len(del.tried) :
          /\ i < j
          /\ del.tried[i] \in del.failed
          /\ del.tried[j] \notin del.failed

=============================================================================
